---- MODULE Spec2Model ----
(***************************************************************************)
(* A model of crontab-ui: the job store (NeDB), its validators, the        *)
(* publish protocol set_crontab, and the DatabaseManager cache layer.      *)
(*                                                                         *)
(* Strings are sequences of one-character strings, so that trimming,       *)
(* regular-expression tests and concatenation are computed, not assumed.   *)
(***************************************************************************)
EXTENDS Integers, Sequences, FiniteSets, TLC

(* ----------------------------------------------------------------------- *)
(* Strings and the regular expressions of the validators                   *)
(* ----------------------------------------------------------------------- *)

LowerLetters ==
  {"a", "b", "c", "d", "e", "f", "g", "h", "i", "j", "k", "l", "m",
   "n", "o", "p", "q", "r", "s", "t", "u", "v", "w", "x", "y", "z"}

UpperLetters ==
  {"A", "B", "C", "D", "E", "F", "G", "H", "I", "J", "K", "L", "M",
   "N", "O", "P", "Q", "R", "S", "T", "U", "V", "W", "X", "Y", "Z"}

Digits == {"0", "1", "2", "3", "4", "5", "6", "7", "8", "9"}

\* JavaScript's \w
WordChars == LowerLetters \cup UpperLetters \cup Digits \cup {"_"}

\* JavaScript's \s, restricted to the characters the model's strings use
SpaceChars == {" ", "\t", "\n"}

toLowerCase(c) ==
  CASE c = "A" -> "a" [] c = "B" -> "b" [] c = "C" -> "c" [] c = "D" -> "d"
    [] c = "E" -> "e" [] c = "F" -> "f" [] c = "G" -> "g" [] c = "H" -> "h"
    [] c = "I" -> "i" [] c = "J" -> "j" [] c = "K" -> "k" [] c = "L" -> "l"
    [] c = "M" -> "m" [] c = "N" -> "n" [] c = "O" -> "o" [] c = "P" -> "p"
    [] c = "Q" -> "q" [] c = "R" -> "r" [] c = "S" -> "s" [] c = "T" -> "t"
    [] c = "U" -> "u" [] c = "V" -> "v" [] c = "W" -> "w" [] c = "X" -> "x"
    [] c = "Y" -> "y" [] c = "Z" -> "z" [] OTHER -> c

LowerStr(s) == [k \in 1..Len(s) |-> toLowerCase(s[k])]

\* The JavaScript value true where a string is expected: a one-element
\* sequence that no string equals (a string's elements are single characters)
JsTrue == <<"bool:true">>

\* typeof v === 'string'; false, undefined and the empty string are all
\* written <<>>, which every check treats alike (they are falsy)
IsString(v) == v # JsTrue

\* Regular expression nodes
Lit(w)    == [t |-> "lit", w |-> w]
Ws        == [t |-> "ws"]
AnyCh     == [t |-> "any"]
WordB     == [t |-> "wb"]
Cat(xs)   == [t |-> "cat", xs |-> xs]
Alt(xs)   == [t |-> "alt", xs |-> xs]
Opt(x)    == [t |-> "opt", x |-> x]
Star(x)   == [t |-> "star", x |-> x]
Plus(x)   == [t |-> "plus", x |-> x]
NoCase(x) == [t |-> "nocase", x |-> x]

IsWordAt(s, i) == i >= 1 /\ i <= Len(s) /\ s[i] \in WordChars

RECURSIVE ReEnds(_, _, _), ReCat(_, _, _, _), ReClosure(_, _, _)

\* The positions at which a match of re that starts at position i of s can end
\* (the index of the first character after the match).
ReEnds(re, s, i) ==
  CASE re.t = "lit" ->
         IF i + Len(re.w) - 1 <= Len(s) /\ SubSeq(s, i, i + Len(re.w) - 1) = re.w
         THEN {i + Len(re.w)} ELSE {}
    [] re.t = "ws" ->
         IF i <= Len(s) /\ s[i] \in SpaceChars THEN {i + 1} ELSE {}
    [] re.t = "any" ->
         IF i <= Len(s) /\ s[i] # "\n" THEN {i + 1} ELSE {}
    [] re.t = "wb" ->
         IF IsWordAt(s, i - 1) # IsWordAt(s, i) THEN {i} ELSE {}
    [] re.t = "cat" -> ReCat(re.xs, 1, s, {i})
    [] re.t = "alt" -> UNION {ReEnds(re.xs[k], s, i) : k \in DOMAIN re.xs}
    [] re.t = "opt" -> {i} \cup ReEnds(re.x, s, i)
    [] re.t = "star" -> ReClosure(re.x, s, {i})
    [] re.t = "plus" -> ReClosure(re.x, s, ReEnds(re.x, s, i))
    [] re.t = "nocase" -> ReEnds(re.x, LowerStr(s), i)

ReCat(xs, k, s, from) ==
  IF k > Len(xs) \/ from = {} THEN from
  ELSE ReCat(xs, k + 1, s, UNION {ReEnds(xs[k], s, p) : p \in from})

ReClosure(x, s, from) ==
  LET more == from \cup UNION {ReEnds(x, s, p) : p \in from}
  IN IF more = from THEN from ELSE ReClosure(x, s, more)

\* The pattern and the string to match it on: for a case-insensitive pattern
\* the string in lower case (the patterns are written in lower case)
Folded(re, s) == IF re.t = "nocase" THEN <<re.x, LowerStr(s)>> ELSE <<re, s>>

ReTest(re, s) ==
  \E f \in {Folded(re, s)} : \E i \in 1..(Len(s) + 1) : ReEnds(f[1], f[2], i) # {}

\* String.prototype.includes
Includes(s, w) ==
  \E i \in 1..(Len(s) + 1) :
     i + Len(w) - 1 <= Len(s) /\ SubSeq(s, i, i + Len(w) - 1) = w

RECURSIVE TrimLeft(_), TrimRight(_)
TrimLeft(s) ==
  IF s # <<>> /\ Head(s) \in SpaceChars THEN TrimLeft(Tail(s)) ELSE s
TrimRight(s) ==
  IF s # <<>> /\ s[Len(s)] \in SpaceChars
  THEN TrimRight(SubSeq(s, 1, Len(s) - 1)) ELSE s

\* String.prototype.trim
Trim(s) == TrimLeft(TrimRight(s))

dangerousPatterns ==
  <<
    \* rm with root paths
    Cat(<<WordB, Lit(<<"r", "m">>), Plus(Ws), Opt(Cat(<<Lit(<<"-", "r", "f">>), Plus(Ws)>>)), Lit(<<"/">>)>>),
    \* mv to root
    Cat(<<WordB, Lit(<<"m", "v">>), Plus(Ws), Star(AnyCh), Plus(Ws), Lit(<<"/">>)>>),
    \* cp to root
    Cat(<<WordB, Lit(<<"c", "p">>), Plus(Ws), Star(AnyCh), Plus(Ws), Lit(<<"/">>)>>),
    \* dangerous permissions
    Cat(<<WordB, Lit(<<"c", "h", "m", "o", "d">>), Plus(Ws), Alt(<<Lit(<<"7", "7", "7">>), Lit(<<"6", "6", "6">>)>>)>>),
    \* changing to root ownership
    Cat(<<WordB, Lit(<<"c", "h", "o", "w", "n">>), Plus(Ws), Lit(<<"r", "o", "o", "t">>)>>),
    \* switch user
    Cat(<<WordB, Lit(<<"s", "u">>), Plus(Ws)>>),
    \* sudo commands
    Cat(<<WordB, Lit(<<"s", "u", "d", "o">>), Plus(Ws)>>),
    \* download and execute
    Cat(<<WordB, Alt(<<Lit(<<"w", "g", "e", "t">>), Lit(<<"c", "u", "r", "l">>)>>), Star(AnyCh), Lit(<<"|">>), Star(Ws), Alt(<<Lit(<<"s", "h">>), Lit(<<"b", "a", "s", "h">>), Lit(<<"z", "s", "h">>), Lit(<<"f", "i", "s", "h">>)>>)>>),
    \* reverse shells
    Cat(<<WordB, Alt(<<Lit(<<"n", "c">>), Lit(<<"n", "e", "t", "c", "a", "t">>), Lit(<<"n", "c", "a", "t">>)>>), Star(AnyCh), Alt(<<Lit(<<"-", "e">>), Lit(<<"-", "c">>)>>)>>),
    \* eval execution
    Cat(<<WordB, Lit(<<"e", "v", "a", "l">>), Star(Ws), Lit(<<"(">>)>>),
    \* exec execution
    Cat(<<WordB, Lit(<<"e", "x", "e", "c">>), Star(Ws), Lit(<<"(">>)>>),
    \* redirect to system dirs
    Cat(<<Lit(<<">">>), Star(Ws), Star(AnyCh), Lit(<<"/">>), Alt(<<Lit(<<"e", "t", "c">>), Lit(<<"b", "i", "n">>), Lit(<<"s", "b", "i", "n">>), Lit(<<"u", "s", "r", "/", "b", "i", "n">>), Lit(<<"u", "s", "r", "/", "s", "b", "i", "n">>)>>)>>),
    \* chained dangerous commands
    Cat(<<Lit(<<";">>), Star(Ws), Alt(<<Lit(<<"r", "m">>), Lit(<<"m", "v">>), Lit(<<"c", "p">>), Lit(<<"c", "h", "m", "o", "d">>), Lit(<<"c", "h", "o", "w", "n">>)>>), Plus(Ws)>>),
    \* piped dangerous commands
    Cat(<<Lit(<<"|">>), Star(Ws), Alt(<<Lit(<<"r", "m">>), Lit(<<"m", "v">>), Lit(<<"c", "p">>), Lit(<<"c", "h", "m", "o", "d">>), Lit(<<"c", "h", "o", "w", "n">>)>>), Plus(Ws)>>),
    \* conditional dangerous commands
    Cat(<<Lit(<<"&", "&">>), Star(Ws), Alt(<<Lit(<<"r", "m">>), Lit(<<"m", "v">>), Lit(<<"c", "p">>), Lit(<<"c", "h", "m", "o", "d">>), Lit(<<"c", "h", "o", "w", "n">>)>>), Plus(Ws)>>),
    \* destructive commands (case-insensitive)
    NoCase(Cat(<<WordB, Alt(<<Lit(<<"f", "o", "r", "m", "a", "t">>), Lit(<<"m", "k", "f", "s">>), Lit(<<"f", "d", "i", "s", "k">>), Cat(<<Lit(<<"d", "d">>), Star(AnyCh), Lit(<<"o", "f", "=", "/", "d", "e", "v">>)>>), Lit(<<"h", "a", "l", "t">>), Lit(<<"p", "o", "w", "e", "r", "o", "f", "f">>), Lit(<<"r", "e", "b", "o", "o", "t">>), Lit(<<"s", "h", "u", "t", "d", "o", "w", "n">>)>>), WordB>>)),
    \* script execution
    Cat(<<WordB, Alt(<<Lit(<<"p", "y", "t", "h", "o", "n">>), Lit(<<"p", "y", "t", "h", "o", "n", "3">>), Lit(<<"n", "o", "d", "e">>), Lit(<<"p", "h", "p">>), Lit(<<"r", "u", "b", "y">>), Lit(<<"p", "e", "r", "l">>)>>), Plus(Ws), Star(AnyCh), Lit(<<"-", "c">>), Plus(Ws)>>),
    \* shell execution
    Cat(<<WordB, Alt(<<Lit(<<"b", "a", "s", "h">>), Lit(<<"s", "h">>), Lit(<<"z", "s", "h">>), Lit(<<"f", "i", "s", "h">>)>>), Plus(Ws), Star(AnyCh), Lit(<<"-", "c">>), Plus(Ws)>>),
    \* variable expansion to shell
    Cat(<<Lit(<<"$">>), Star(AnyCh), Star(Ws), Lit(<<"|">>), Star(Ws), Alt(<<Lit(<<"s", "h">>), Lit(<<"b", "a", "s", "h">>), Lit(<<"z", "s", "h">>)>>)>>),
    \* kill init process
    Cat(<<WordB, Lit(<<"k", "i", "l", "l">>), Plus(Ws), Opt(Cat(<<Lit(<<"-", "9">>), Plus(Ws)>>)), Lit(<<"1">>), WordB>>),
    \* container/service management
    Cat(<<WordB, Alt(<<Lit(<<"d", "o", "c", "k", "e", "r">>), Lit(<<"k", "u", "b", "e", "c", "t", "l">>), Lit(<<"s", "y", "s", "t", "e", "m", "c", "t", "l">>)>>), Plus(Ws), Alt(<<Lit(<<"r", "u", "n">>), Lit(<<"e", "x", "e", "c">>), Lit(<<"s", "t", "a", "r", "t">>), Lit(<<"s", "t", "o", "p">>), Lit(<<"r", "e", "s", "t", "a", "r", "t">>)>>)>>)
  >>

(* ----------------------------------------------------------------------- *)
(* Validators (crontab.js)                                                 *)
(* ----------------------------------------------------------------------- *)

MaxCommandLength == 2000

ScriptTag == <<"<", "s", "c", "r", "i", "p", "t", ">">>
JavascriptMarker == <<"j", "a", "v", "a", "s", "c", "r", "i", "p", "t", ":">>

\* validateCommandSecurity: false for a command that is empty or not a string,
\* one that a dangerous pattern matches, one with an XSS marker, or one that
\* is too long.
validateCommandSecurity(command) ==
  /\ command # <<>>
  /\ IsString(command)
  /\ \A k \in DOMAIN dangerousPatterns : ~ReTest(dangerousPatterns[k], command)
  /\ ~Includes(command, ScriptTag)
  /\ ~Includes(command, JavascriptMarker)
  /\ ~(Len(command) > MaxCommandLength)

RECURSIVE SplitWs(_, _, _)
\* String.prototype.split(/\s+/): s cut at every run of whitespace
SplitWs(s, cur, acc) ==
  IF s = <<>> THEN Append(acc, cur)
  ELSE IF Head(s) \in SpaceChars
       THEN IF Len(s) > 1 /\ s[2] \in SpaceChars
            THEN SplitWs(Tail(s), cur, acc)
            ELSE SplitWs(Tail(s), <<>>, Append(acc, cur))
       ELSE SplitWs(Tail(s), Append(cur, Head(s)), acc)

Split(s) == SplitWs(s, <<>>, <<>>)

DigitValue(c) ==
  CASE c = "0" -> 0 [] c = "1" -> 1 [] c = "2" -> 2 [] c = "3" -> 3
    [] c = "4" -> 4 [] c = "5" -> 5 [] c = "6" -> 6 [] c = "7" -> 7
    [] c = "8" -> 8 [] c = "9" -> 9

DigitChar(d) ==
  CASE d = 0 -> "0" [] d = 1 -> "1" [] d = 2 -> "2" [] d = 3 -> "3" [] d = 4 -> "4"
    [] d = 5 -> "5" [] d = 6 -> "6" [] d = 7 -> "7" [] d = 8 -> "8" [] d = 9 -> "9"

RECURSIVE ParseNat(_, _)
ParseNat(s, acc) ==
  IF s = <<>> THEN acc ELSE ParseNat(Tail(s), 10 * acc + DigitValue(Head(s)))

IsNumber(s) == s # <<>> /\ \A k \in DOMAIN s : s[k] \in Digits

\* cron-parser's fields, in its order, with the constraints of each
CronFieldMin == <<0, 0, 0, 1, 1, 0>>
CronFieldMax == <<59, 59, 23, 31, 12, 7>>

\* cron-parser's predefined expressions
CronPredefined ==
  { <<"@", "y", "e", "a", "r", "l", "y">>,
    <<"@", "m", "o", "n", "t", "h", "l", "y">>,
    <<"@", "w", "e", "e", "k", "l", "y">>,
    <<"@", "d", "a", "i", "l", "y">>,
    <<"@", "h", "o", "u", "r", "l", "y">> }

InCronRange(f, s) ==
  IsNumber(s) /\ ParseNat(s, 0) >= CronFieldMin[f] /\ ParseNat(s, 0) <= CronFieldMax[f]

\* One field of a cron expression: *, a number, a range a-b, or one of these
\* with a step (/n, n > 0); every number within the field's constraints.
CronRangeOk(f, s) ==
  \/ s = <<"*">>
  \/ InCronRange(f, s)
  \/ \E d \in 2..(Len(s) - 1) :
        /\ s[d] = "-"
        /\ InCronRange(f, SubSeq(s, 1, d - 1))
        /\ InCronRange(f, SubSeq(s, d + 1, Len(s)))
        /\ ParseNat(SubSeq(s, 1, d - 1), 0) <= ParseNat(SubSeq(s, d + 1, Len(s)), 0)

CronFieldOk(f, s) ==
  \/ CronRangeOk(f, s)
  \/ \E d \in 2..(Len(s) - 1) :
        /\ s[d] = "/"
        /\ CronRangeOk(f, SubSeq(s, 1, d - 1))
        /\ IsNumber(SubSeq(s, d + 1, Len(s)))
        /\ ParseNat(SubSeq(s, d + 1, Len(s)), 0) > 0

\* cronParser.parseExpression does not throw: a predefined expression, or at
\* most six fields, the missing leading ones taking their defaults.
parseExpression(expression) ==
  \/ expression \in CronPredefined
  \/ LET atoms == Split(Trim(expression))
         start == 6 - Len(atoms)
     IN /\ Len(atoms) <= 6
        /\ \A k \in DOMAIN atoms :
              atoms[k] = <<>> \/ CronFieldOk(start + k, atoms[k])

validateCronSchedule(schedule) ==
  /\ schedule # <<>>
  /\ IsString(schedule)
  /\ parseExpression(Trim(schedule))

\* validator.isAlphanumeric (en-US)
isAlphanumeric(s) ==
  s # <<>> /\ \A k \in DOMAIN s : s[k] \in LowerLetters \cup UpperLetters \cup Digits

\* name.replace(/[-_\s]/g, '')
StripNameChars(s) == SelectSeq(s, LAMBDA c : c \notin {"-", "_"} \cup SpaceChars)

\* validator.escape of one character (it also replaces the backquote, which
\* no string of the model holds)
EscapeChar(c) ==
  CASE c = "&" -> <<"&", "a", "m", "p", ";">>
    [] c = "<" -> <<"&", "l", "t", ";">>
    [] c = ">" -> <<"&", "g", "t", ";">>
    [] c = "\"" -> <<"&", "q", "u", "o", "t", ";">>
    [] c = "'" -> <<"&", "#", "x", "2", "7", ";">>
    [] c = "/" -> <<"&", "#", "x", "2", "F", ";">>
    [] c = "\\" -> <<"&", "#", "x", "5", "C", ";">>
    [] OTHER -> <<c>>

RECURSIVE escape(_)
\* validator.escape
escape(s) == IF s = <<>> THEN <<>> ELSE EscapeChar(Head(s)) \o escape(Tail(s))

MaxNameLength == 100

\* JavaScript values of the loosely typed arguments (stopped, logging) are
\* written with their type: "bool:true", "str:true", "null", "undefined".
\* Boolean(x) is false for false, null, undefined and the empty string only.
Boolean(x) == x \notin {"bool:false", "null", "undefined", "str:"}

\* createCrontab without the command-safety check
createCrontabErrorNoCommandCheck(name, command, schedule) ==
  IF name # <<>> /\ (~IsString(name) \/ Len(name) > MaxNameLength)
  THEN "Invalid job name: must be 1-100 characters"
  ELSE IF name # <<>> /\ ~isAlphanumeric(StripNameChars(name))
       THEN "Job name contains invalid characters"
  ELSE IF ~validateCronSchedule(schedule) THEN "Invalid cron schedule format"
  ELSE ""

\* The reason createCrontab throws with, or "" when it accepts the job
createCrontabError(name, command, schedule) ==
  IF name # <<>> /\ (~IsString(name) \/ Len(name) > MaxNameLength)
  THEN "Invalid job name: must be 1-100 characters"
  ELSE IF name # <<>> /\ ~isAlphanumeric(StripNameChars(name))
       THEN "Job name contains invalid characters"
  ELSE IF ~validateCommandSecurity(command)
       THEN "Command contains potentially dangerous operations"
  ELSE IF ~validateCronSchedule(schedule) THEN "Invalid cron schedule format"
  ELSE ""

\* The record createCrontab returns: sanitized and trimmed fields, saved false
\* (timestamp, lastModified and version, which nothing reads, are left out)
createCrontab(name, command, schedule, stopped, logging, mailing, time) ==
  [ name |-> escape(name),
    command |-> Trim(command),
    schedule |-> Trim(schedule),
    stopped |-> Boolean(stopped),
    logging |-> Boolean(logging),
    mailing |-> mailing,
    created |-> time,
    saved |-> FALSE ]

(* ----------------------------------------------------------------------- *)
(* The checks of the HTTP layer: validateInput and the save route (app.js)  *)
(* ----------------------------------------------------------------------- *)

\* validateInput's dangerousCommands
dangerousCommands ==
  <<
    \* rm with root paths
    Cat(<<WordB, Lit(<<"r", "m">>), Plus(Ws), Opt(Cat(<<Lit(<<"-", "r", "f">>), Plus(Ws)>>)), Lit(<<"/">>)>>),
    \* mv to root
    Cat(<<WordB, Lit(<<"m", "v">>), Plus(Ws), Star(AnyCh), Plus(Ws), Lit(<<"/">>)>>),
    \* cp to root
    Cat(<<WordB, Lit(<<"c", "p">>), Plus(Ws), Star(AnyCh), Plus(Ws), Lit(<<"/">>)>>),
    \* dangerous permissions
    Cat(<<WordB, Lit(<<"c", "h", "m", "o", "d">>), Plus(Ws), Alt(<<Lit(<<"7", "7", "7">>), Lit(<<"6", "6", "6">>)>>)>>),
    \* changing to root ownership
    Cat(<<WordB, Lit(<<"c", "h", "o", "w", "n">>), Plus(Ws), Lit(<<"r", "o", "o", "t">>)>>),
    \* switch user
    Cat(<<WordB, Lit(<<"s", "u">>), Plus(Ws)>>),
    \* sudo commands
    Cat(<<WordB, Lit(<<"s", "u", "d", "o">>), Plus(Ws)>>),
    \* download and execute
    Cat(<<WordB, Alt(<<Lit(<<"w", "g", "e", "t">>), Lit(<<"c", "u", "r", "l">>)>>), Star(AnyCh), Lit(<<"|">>), Star(Ws), Alt(<<Lit(<<"s", "h">>), Lit(<<"b", "a", "s", "h">>)>>)>>),
    \* reverse shells
    Cat(<<WordB, Alt(<<Lit(<<"n", "c">>), Lit(<<"n", "e", "t", "c", "a", "t">>)>>), Star(AnyCh), Lit(<<"-", "e">>)>>),
    \* eval execution
    Cat(<<WordB, Lit(<<"e", "v", "a", "l">>), Star(Ws), Lit(<<"(">>)>>),
    \* exec execution
    Cat(<<WordB, Lit(<<"e", "x", "e", "c">>), Star(Ws), Lit(<<"(">>)>>),
    \* redirect to system dirs
    Cat(<<Lit(<<">">>), Star(Ws), Star(AnyCh), Lit(<<"/">>), Alt(<<Lit(<<"e", "t", "c">>), Lit(<<"b", "i", "n">>), Lit(<<"s", "b", "i", "n">>), Lit(<<"u", "s", "r", "/", "b", "i", "n">>), Lit(<<"u", "s", "r", "/", "s", "b", "i", "n">>)>>)>>),
    \* chained dangerous commands
    Cat(<<Lit(<<";">>), Star(Ws), Alt(<<Lit(<<"r", "m">>), Lit(<<"m", "v">>), Lit(<<"c", "p">>)>>), Plus(Ws)>>),
    \* piped dangerous commands
    Cat(<<Lit(<<"|">>), Star(Ws), Alt(<<Lit(<<"r", "m">>), Lit(<<"m", "v">>), Lit(<<"c", "p">>)>>), Plus(Ws)>>),
    \* conditional dangerous commands
    Cat(<<Lit(<<"&", "&">>), Star(Ws), Alt(<<Lit(<<"r", "m">>), Lit(<<"m", "v">>), Lit(<<"c", "p">>)>>), Plus(Ws)>>)
  >>

\* The save route's additional pattern (case-insensitive)
destructiveOperations ==
  NoCase(Cat(<<WordB, Alt(<<Lit(<<"f", "o", "r", "m", "a", "t">>), Lit(<<"m", "k", "f", "s">>), Lit(<<"f", "d", "i", "s", "k">>), Cat(<<Lit(<<"d", "d">>), Star(AnyCh), Lit(<<"o", "f", "=", "/", "d", "e", "v">>)>>), Lit(<<"r", "e", "b", "o", "o", "t">>), Lit(<<"s", "h", "u", "t", "d", "o", "w", "n">>), Lit(<<"h", "a", "l", "t">>), Lit(<<"p", "o", "w", "e", "r", "o", "f", "f">>)>>), WordB>>))

\* validateInput's validMacros
validMacros ==
  { <<"@", "r", "e", "b", "o", "o", "t">>,
    <<"@", "y", "e", "a", "r", "l", "y">>,
    <<"@", "a", "n", "n", "u", "a", "l", "l", "y">>,
    <<"@", "m", "o", "n", "t", "h", "l", "y">>,
    <<"@", "w", "e", "e", "k", "l", "y">>,
    <<"@", "d", "a", "i", "l", "y">>,
    <<"@", "m", "i", "d", "n", "i", "g", "h", "t">>,
    <<"@", "h", "o", "u", "r", "l", "y">> }

\* xss() of one character of a text that holds no tag of its whitelist: the
\* angle brackets are escaped
XssChar(c) ==
  CASE c = "<" -> <<"&", "l", "t", ";">>
    [] c = ">" -> <<"&", "g", "t", ";">>
    [] OTHER -> <<c>>

RECURSIVE xss(_)
xss(s) == IF s = <<>> THEN <<>> ELSE XssChar(Head(s)) \o xss(Tail(s))

\* /^[a-zA-Z0-9_\-\s\.]+$/.test(input)
NamePatternTest(input) ==
  /\ input # <<>>
  /\ \A k \in DOMAIN input :
        input[k] \in LowerLetters \cup UpperLetters \cup Digits \cup {"_", "-", "."}
                       \cup SpaceChars

\* validateInput: false (written <<>>) for an input that is empty or not a
\* string or fails the check of its type; for a schedule that starts with @
\* the boolean validMacros.includes gives; else the input after xss()
validateInput(input, type) ==
  IF input = <<>> \/ ~IsString(input) THEN <<>>
  ELSE LET sanitized == xss(input)
       IN CASE type = "command" ->
                 IF \E k \in DOMAIN dangerousCommands : ReTest(dangerousCommands[k], sanitized)
                 THEN <<>> ELSE sanitized
            [] type = "schedule" ->
                 IF Head(sanitized) = "@"
                 THEN (IF sanitized \in validMacros THEN JsTrue ELSE <<>>)
                 ELSE IF Len(Split(sanitized)) < 5 \/ Len(Split(sanitized)) > 6
                      THEN <<>> ELSE sanitized
            [] type = "name" ->
                 IF Len(sanitized) > MaxNameLength THEN <<>>
                 ELSE IF ~NamePatternTest(sanitized) THEN <<>>
                 ELSE sanitized
            [] OTHER -> sanitized

\* The arguments the save route hands to create_new or update: the request's
\* fields after validateInput
SaveArguments(body) ==
  [ name |-> validateInput(body.name, "name"),
    command |-> validateInput(body.command, "command"),
    schedule |-> validateInput(body.schedule, "schedule"),
    logging |-> body.logging,
    mailing |-> body.mailing ]

\* The response of the save route. create_new and update are async functions
\* that the route does not await: what they throw rejects a promise nobody
\* handles, the catch block of the route does not see it, and the route
\* answers success.
SaveResponse(body) ==
  LET args == SaveArguments(body)
  IN IF args.command = <<>>
     THEN "400 Invalid or potentially dangerous command detected"
     ELSE IF args.schedule = <<>> THEN "400 Invalid schedule format"
     ELSE IF args.name # <<>> /\ Len(args.name) > MaxNameLength THEN "400 Job name too long"
     ELSE IF ReTest(destructiveOperations, args.command)
          THEN "403 Command contains potentially destructive operations and is not allowed"
     ELSE "200 success"

(* ----------------------------------------------------------------------- *)
(* Bounds and inputs                                                       *)
(* ----------------------------------------------------------------------- *)

\* Jobs ever created (ids are never reused)
MaxJobs == 2

\* Calls of the mutating operations in one run of the model
MaxOps == 2

\* Invocations of set_crontab in one run of the model
MaxPublishes == 2

\* Date.now() of the latest moment a run of the model reaches, in clock steps
MaxNow == 1

\* Invocations of set_crontab that can be in flight together (HTTP requests,
\* watcher callbacks)
Publishers == {1, 2}

S_echo  == <<"e", "c", "h", "o", " ", "h", "i">>
S_ls    == <<"l", "s", " ">>
S_rmrf  == <<"r", "m", " ", "-", "r", "f", " ", "/">>
S_daily == <<"@", "d", "a", "i", "l", "y">>
S_2am   == <<"0", " ", "2", " ", "*", " ", "*", " ", "*">>
S_bad   == <<"6", "1", " ", "*", " ", "*", " ", "*", " ", "*">>
S_name  == <<"j", "o", "b">>
S_env   == <<"A", "=", "1">>

\* The (name, command, schedule, logging, mailing) arguments of create_new and
\* update: two acceptable jobs, one with a dangerous command, one with a
\* schedule that does not parse.
Proposals ==
  { [name |-> S_name, command |-> S_echo, schedule |-> S_2am,
     logging |-> "str:true", mailing |-> {}],
    [name |-> <<>>, command |-> S_ls, schedule |-> S_daily,
     logging |-> "undefined", mailing |-> {"onError"}],
    [name |-> <<>>, command |-> S_rmrf, schedule |-> S_daily,
     logging |-> "undefined", mailing |-> {}],
    [name |-> S_name, command |-> S_echo, schedule |-> S_bad,
     logging |-> "undefined", mailing |-> {}] }

\* The env_vars a publish request carries
EnvValues == {<<>>, S_env}

S_sudo   == <<"s", "u", "d", "o", " ", "l", "s">>
S_chain  == <<"e", "c", "h", "o", " ", "h", "i", " ", "&", "&", " ", "r", "m", " ", "x">>
S_script == <<"e", "c", "h", "o", " ", "<", "s", "c", "r", "i", "p", "t", ">">>
S_SCRIPT == <<"e", "c", "h", "o", " ", "<", "S", "C", "R", "I", "P", "T", ">">>
S_jsmark == <<"e", "c", "h", "o", " ", "j", "a", "v", "a", "s", "c", "r", "i", "p", "t", ":", "1">>
S_REBOOT == <<"R", "E", "B", "O", "O", "T">>
S_sudoku == <<"e", "c", "h", "o", " ", "s", "u", "d", "o", "k", "u">>

\* Commands of MaxCommandLength and of MaxCommandLength + 1 characters
S_longest == [k \in 1..MaxCommandLength |-> "a"]
S_toolong == [k \in 1..(MaxCommandLength + 1) |-> "a"]

S_dotted == <<"a", ".", "b">>
S_semi   == <<"a", ";", "b">>
S_reboot == <<"@", "r", "e", "b", "o", "o", "t">>
S_2parts == <<"*", " ", "*">>
S_halt   == <<"h", "a", "l", "t">>

\* A name of MaxNameLength + 1 characters
S_long == [k \in 1..(MaxNameLength + 1) |-> "a"]

\* The (name, command, schedule, logging, mailing) fields of the bodies of
\* save requests: an acceptable job; names with a dot, with a semicolon and
\* of 101 characters; named macros as schedule; a schedule whose minute is
\* out of range and one of two fields; commands that the route refuses.
SaveFields ==
  { [name |-> S_name, command |-> S_echo, schedule |-> S_2am,
     logging |-> "str:true", mailing |-> {}],
    [name |-> S_dotted, command |-> S_ls, schedule |-> S_2am,
     logging |-> "undefined", mailing |-> {}],
    [name |-> S_semi, command |-> S_ls, schedule |-> S_2am,
     logging |-> "undefined", mailing |-> {}],
    [name |-> S_long, command |-> S_ls, schedule |-> S_2am,
     logging |-> "undefined", mailing |-> {}],
    [name |-> <<>>, command |-> S_echo, schedule |-> S_daily,
     logging |-> "undefined", mailing |-> {}],
    [name |-> <<>>, command |-> S_echo, schedule |-> S_reboot,
     logging |-> "undefined", mailing |-> {}],
    [name |-> S_name, command |-> S_echo, schedule |-> S_bad,
     logging |-> "undefined", mailing |-> {}],
    [name |-> S_name, command |-> S_echo, schedule |-> S_2parts,
     logging |-> "undefined", mailing |-> {}],
    [name |-> <<>>, command |-> S_rmrf, schedule |-> S_2am,
     logging |-> "undefined", mailing |-> {}],
    [name |-> <<>>, command |-> S_halt, schedule |-> S_2am,
     logging |-> "undefined", mailing |-> {}] }

\* req.body._id of a save request: -1 for a new job, else the job to edit
SaveIds == {-1} \cup (1..MaxJobs)

\* Arguments of create_new and update that differ in their command: commands
\* that match a dangerous pattern at their start or further on, or in capital
\* letters, hold a script tag or a javascript: marker, are too long or are
\* not a string, and commands that do none of this; with names and
\* schedules that pass and that fail their checks
CommandProposals ==
  { [name |-> n, command |-> cmd, schedule |-> s, logging |-> "undefined", mailing |-> {}] :
      n \in {<<>>, S_name, S_semi},
      cmd \in {S_echo, S_ls, S_sudoku, S_rmrf, S_sudo, S_chain, S_REBOOT, S_script,
               S_SCRIPT, S_jsmark, JsTrue},
      s \in {S_2am, S_bad} }
  \cup
  { [name |-> S_name, command |-> cmd, schedule |-> S_2am, logging |-> "undefined",
     mailing |-> {}] : cmd \in {S_longest, S_toolong} }

\* What the save route makes of each body, and its response to each
RouteArguments == [f \in SaveFields |-> SaveArguments(f)]
RouteResponse == [f \in SaveFields |-> SaveResponse(f)]

\* createCrontab's verdict on each proposal and on the arguments the save
\* route makes of each body
ProposalError ==
  [c \in Proposals \cup CommandProposals \cup {RouteArguments[f] : f \in SaveFields} |->
     createCrontabError(c.name, c.command, c.schedule)]

JobIds == 1..MaxJobs

(* ----------------------------------------------------------------------- *)
(* State                                                                   *)
(* ----------------------------------------------------------------------- *)

VARIABLES
  backendType,  \* "nedb": crontab.js over its NeDB store; "sqlite", "redis": DatabaseManager
  now,          \* Date.now()
  ops,          \* calls of the mutating operations so far
  last,         \* the latest completed call: operation, job id, argument, what it gave back
  nextId,       \* the next fresh job id
  store,        \* the NeDB datastore: _id -> document
  pub,          \* the set_crontab invocations: control point and locals of each
  envFile,      \* contents of env.db
  cronFile,     \* contents of the schedule file handed to the host's crontab command
  installed,    \* the schedule the host scheduler runs
  fileChanged,  \* crontab.db was written since the watcher last fired
  publishes,    \* set_crontab invocations so far
  rows,         \* DatabaseManager's backend: the crontabs table or hash, _id -> row
  cache,        \* DatabaseManager.cache, a Map: its entries in insertion order
  call,         \* the DatabaseManager calls in flight: control point and locals of each
  wire,         \* the callers whose redis command awaits its reply, oldest first
  manager       \* the ClusterManager of the primary process and Node's cluster.workers

commonVars == <<backendType, now, ops, last, nextId>>

legacyVars == <<store, pub, envFile, cronFile, installed, fileChanged, publishes>>

dbVars == <<rows, cache, call, wire>>

vars == <<commonVars, legacyVars, dbVars, manager>>

NoCall == [op |-> "none", id |-> 0, arg |-> <<>>, out |-> ""]

Returned(op, id, arg, out) == [op |-> op, id |-> id, arg |-> arg, out |-> out]

IdlePub == [pc |-> "idle", env |-> <<>>, lines |-> <<>>, text |-> <<>>, cbs |-> <<>>]

EmptyFile == [env |-> <<>>, lines |-> <<>>, text |-> <<>>]

(* ----------------------------------------------------------------------- *)
(* Job mutations on the NeDB store (crontab.js)                            *)
(* ----------------------------------------------------------------------- *)

\* create_new: createCrontab validates and builds the document (stopped false),
\* legacyDb.insert stores it under a fresh _id; a validation error rejects the
\* call before anything is stored.
create_new(c) ==
  /\ backendType = "nedb"
  /\ ops < MaxOps
  /\ ops' = ops + 1
  /\ LET error == ProposalError[c]
         tab == createCrontab(c.name, c.command, c.schedule, "bool:false",
                              c.logging, c.mailing, now)
     IN IF error # ""
        THEN /\ last' = Returned("create_new", 0, <<>>, error)
             /\ UNCHANGED <<store, nextId, fileChanged>>
        ELSE /\ nextId <= MaxJobs
             /\ store' = (nextId :> tab) @@ store
             /\ nextId' = nextId + 1
             /\ fileChanged' = TRUE
             /\ last' = Returned("create_new", nextId, <<>>, "")
  /\ UNCHANGED <<backendType, manager, now, pub, envFile, cronFile, installed, publishes, dbVars>>

\* update: createCrontab validates and builds a whole new document (stopped is
\* Boolean(null)), which legacyDb.update puts in place of the document with
\* that _id, if there is one.
update(id, c) ==
  /\ backendType = "nedb"
  /\ ops < MaxOps
  /\ ops' = ops + 1
  /\ LET error == ProposalError[c]
         tab == createCrontab(c.name, c.command, c.schedule, "null",
                              c.logging, c.mailing, now)
     IN IF error # ""
        THEN /\ last' = Returned("update", id, <<>>, error)
             /\ UNCHANGED <<store, fileChanged>>
        ELSE /\ store' = IF id \in DOMAIN store THEN [store EXCEPT ![id] = tab] ELSE store
             /\ fileChanged' = (fileChanged \/ id \in DOMAIN store)
             /\ last' = Returned("update", id, <<>>, "")
  /\ UNCHANGED <<backendType, manager, now, nextId, pub, envFile, cronFile, installed, publishes,
                 dbVars>>

\* How the write to the modern store ends in create_new and update: it is
\* skipped (config.database.type is not sqlite), or it throws, as modernDb, the
\* DatabaseManager, has no method query; the catch around it logs the error
ModernOutcomes == {"skipped", "failed"}

\* create_new passing on the error of the write to the modern store
create_newRethrows(c, modern, legacy) ==
  IF ProposalError[c] = "" /\ modern = "failed"
  THEN /\ backendType = "nedb"
       /\ ops < MaxOps
       /\ ops' = ops + 1
       /\ last' = Returned("create_new", 0, <<>>, "modernDb.query is not a function")
       /\ UNCHANGED <<backendType, manager, now, nextId, legacyVars, dbVars>>
  ELSE IF ProposalError[c] # "" \/ legacy
  THEN create_new(c)
  ELSE /\ backendType = "nedb"
       /\ ops < MaxOps
       /\ ops' = ops + 1
       /\ last' = Returned("create_new", 0, <<>>, "legacyDb.insert failed")
       /\ UNCHANGED <<backendType, manager, now, nextId, legacyVars, dbVars>>

\* create_new with the outcomes of its two writes: whatever the write to the
\* modern store does, legacyDb.insert is called next; if it calls back with an
\* error the promise is rejected with it and nothing is stored
create_newWrites(c, modern, legacy) ==
  IF ProposalError[c] # "" \/ legacy
  THEN create_new(c)
  ELSE /\ backendType = "nedb"
       /\ ops < MaxOps
       /\ ops' = ops + 1
       /\ last' = Returned("create_new", 0, <<>>, "legacyDb.insert failed")
       /\ UNCHANGED <<backendType, manager, now, nextId, legacyVars, dbVars>>

\* update with the outcomes of its two writes: as create_new, with
\* legacyDb.update in the place of legacyDb.insert
updateWrites(id, c, modern, legacy) ==
  IF ProposalError[c] # "" \/ legacy
  THEN update(id, c)
  ELSE /\ backendType = "nedb"
       /\ ops < MaxOps
       /\ ops' = ops + 1
       /\ last' = Returned("update", id, <<>>, "legacyDb.update failed")
       /\ UNCHANGED <<backendType, manager, now, nextId, legacyVars, dbVars>>

\* status leaving saved as it is
statusKeepsSaved(id, stopped) ==
  /\ backendType = "nedb"
  /\ ops < MaxOps
  /\ ops' = ops + 1
  /\ store' = IF id \in DOMAIN store
              THEN [store EXCEPT ![id].stopped = stopped]
              ELSE store
  /\ fileChanged' = (fileChanged \/ id \in DOMAIN store)
  /\ last' = Returned("status", id, <<>>, "")
  /\ UNCHANGED <<backendType, manager, now, nextId, pub, envFile, cronFile, installed, publishes,
                 dbVars>>

\* status: $set stopped and saved = false on the document with that _id
status(id, stopped) ==
  /\ backendType = "nedb"
  /\ ops < MaxOps
  /\ ops' = ops + 1
  /\ store' = IF id \in DOMAIN store
              THEN [store EXCEPT ![id].stopped = stopped, ![id].saved = FALSE]
              ELSE store
  /\ fileChanged' = (fileChanged \/ id \in DOMAIN store)
  /\ last' = Returned("status", id, <<>>, "")
  /\ UNCHANGED <<backendType, manager, now, nextId, pub, envFile, cronFile, installed, publishes,
                 dbVars>>

\* remove: deletes the document with that _id
remove(id) ==
  /\ backendType = "nedb"
  /\ ops < MaxOps
  /\ ops' = ops + 1
  /\ store' = [j \in DOMAIN store \ {id} |-> store[j]]
  /\ fileChanged' = (fileChanged \/ id \in DOMAIN store)
  /\ last' = Returned("remove", id, <<>>, "")
  /\ UNCHANGED <<backendType, manager, now, nextId, pub, envFile, cronFile, installed, publishes,
                 dbVars>>

\* The save route: the request's fields go through validateInput; a refused
\* command or schedule ends the request with an error response; else
\* create_new (for _id -1) or update is called with what validateInput gave
\* (false for a refused name, true for a named macro), and the response is
\* success
SaveRoute(id, fields) ==
  IF RouteResponse[fields] # "200 success"
  THEN /\ backendType = "nedb"
       /\ ops < MaxOps
       /\ ops' = ops + 1
       /\ last' = Returned("save", id, <<>>, RouteResponse[fields])
       /\ UNCHANGED <<backendType, manager, now, nextId, legacyVars, dbVars>>
  ELSE IF id = -1
       THEN create_new(RouteArguments[fields])
       ELSE update(id, RouteArguments[fields])

(* ----------------------------------------------------------------------- *)
(* Compiling a job: make_command (crontab.js)                              *)
(* ----------------------------------------------------------------------- *)

\* cronPath when CRON_PATH is not set
cronPath == <<"/", "t", "m", "p">>

\* __dirname (the Dockerfile's WORKDIR)
Dirname == <<"/", "c", "r", "o", "n", "t", "a", "b", "-", "u", "i">>

\* db_folder when CRON_DB_PATH is not set, and log_folder under it
db_folder == Dirname \o <<"/", "c", "r", "o", "n", "t", "a", "b", "s">>
log_folder == db_folder \o <<"/", "l", "o", "g", "s">>

S_stderrExt == <<".", "s", "t", "d", "e", "r", "r">>
S_stdoutExt == <<".", "s", "t", "d", "o", "u", "t">>
S_logExt == <<".", "l", "o", "g">>
S_stdoutLogExt == <<".", "s", "t", "d", "o", "u", "t", ".", "l", "o", "g">>
S_true == <<"t", "r", "u", "e">>
S_tee == <<" ", "|", " ", "t", "e", "e", " ">>
S_swap ==
  <<" ", "3", ">", "&", "1", " ", "1", ">", "&", "2", " ", "2", ">", "&",
    "3">>
S_ifTest == <<";", " ", "i", "f", " ", "t", "e", "s", "t", " ", "-", "f", " ">>
S_thenDate ==
  <<";", " ", "t", "h", "e", "n", " ", "d", "a", "t", "e", " ", ">", ">",
    " ", "\"">>
S_cat == <<";", " ", "c", "a", "t", " ">>
S_append == <<" ", ">", ">", " ", "\"">>
S_fi == <<";", " ", "f", "i">>
S_then == <<";", " ", "t", "h", "e", "n", " ">>
S_from == <<" ", "<", " ">>
S_node ==
  <<";", " ", "/", "u", "s", "r", "/", "l", "o", "c", "a", "l", "/", "b",
    "i", "n", "/", "n", "o", "d", "e", " ">>
S_mailer ==
  <<"/", "b", "i", "n", "/", "c", "r", "o", "n", "t", "a", "b", "-", "u",
    "i", "-", "m", "a", "i", "l", "e", "r", ".", "j", "s", " ">>

\* path.join of a folder and a file name
PathJoin(folder, file) == folder \o <<"/">> \o file

\* tab._id as it is spliced into a file name (the ids of the model are the
\* numbers below ten, NeDB's are strings)
IdString(id) == <<DigitChar(id)>>

\* Number(s) for a string of the model: the number it spells, none (NaN)
\* where it is not a numeral
Number(s) == IF IsNumber(s) THEN <<ParseNat(s, 0)>> ELSE <<>>

\* b == s for a boolean b and a string s: both are converted to numbers
LooseEqualsString(b, s) == Number(s) = <<IF b THEN 1 ELSE 0>>

\* tab.hook, which createCrontab never sets
Hook(tab) == IF "hook" \in DOMAIN tab THEN tab.hook ELSE <<>>

\* The fragment make_command builds, given the files it names
Fragment(stderr, stdout, log_file, log_file_stdout, id, tab) ==
  LET command == IF tab.command # <<>> /\ tab.command[Len(tab.command)] = ";"
                 THEN tab.command ELSE tab.command \o <<";">>
      grouped == <<"{", " ">> \o command \o <<" ", "}">>
      teeStdout == <<"(">> \o grouped \o S_tee \o stdout \o <<")">>
      teeStderr == <<"(">> \o teeStdout \o S_swap \o S_tee \o stderr \o <<")">> \o S_swap
      wrapped == <<"(">> \o teeStderr \o <<")">>
      logging == IF tab.logging /\ LooseEqualsString(tab.logging, S_true)
                 THEN S_ifTest \o stderr
                        \o S_thenDate \o log_file \o <<"\"">>
                        \o S_cat \o stderr \o S_append \o log_file \o <<"\"">>
                        \o S_fi
                        \o S_ifTest \o stdout
                        \o S_thenDate \o log_file_stdout \o <<"\"">>
                        \o S_cat \o stdout \o S_append \o log_file_stdout \o <<"\"">>
                        \o S_fi
                 ELSE <<>>
      hook == IF Hook(tab) # <<>>
              THEN S_ifTest \o stdout \o S_then \o Hook(tab) \o S_from \o stdout \o S_fi
              ELSE <<>>
      mailing == IF tab.mailing # {}
                 THEN S_node \o Dirname \o S_mailer \o IdString(id)
                        \o <<" ">> \o stdout \o <<" ">> \o stderr
                 ELSE <<>>
  IN wrapped \o logging \o hook \o mailing

\* The capture and log files of a job
StderrFile(id) == PathJoin(cronPath, IdString(id) \o S_stderrExt)
StdoutFile(id) == PathJoin(cronPath, IdString(id) \o S_stdoutExt)
LogFile(id) == PathJoin(log_folder, IdString(id) \o S_logExt)
StdoutLogFile(id) == PathJoin(log_folder, IdString(id) \o S_stdoutLogExt)

\* make_command naming the files of the first job whatever the job is
make_commandFirstJobFiles(id, tab) ==
  Fragment(StderrFile(1), StdoutFile(1), LogFile(1), StdoutLogFile(1), id, tab)

\* make_command: the shell fragment that runs the job's command with its
\* stdout and stderr copied to the job's capture files, then the logging
\* block, the hook block and the mailer call where the job asks for them
make_command(id, tab) ==
  Fragment(StderrFile(id), StdoutFile(id), LogFile(id), StdoutLogFile(id), id, tab)

RECURSIVE crontab_stringWithStopped(_, _, _)
\* crontab_string without the test of tab.stopped
crontab_stringWithStopped(acc, docs, order) ==
  IF order = <<>> THEN acc
  ELSE LET id == Head(order)
           tab == docs[id]
       IN crontab_stringWithStopped(
            acc \o tab.schedule \o <<" ">> \o make_command(id, tab) \o <<"\n">>,
            docs, Tail(order))

RECURSIVE crontab_stringUnsavedOnly(_, _, _)
\* crontab_string leaving out the jobs already marked saved
crontab_stringUnsavedOnly(acc, docs, order) ==
  IF order = <<>> THEN acc
  ELSE LET id == Head(order)
           tab == docs[id]
       IN crontab_stringUnsavedOnly(
            IF ~tab.stopped /\ ~tab.saved
            THEN acc \o tab.schedule \o <<" ">> \o make_command(id, tab) \o <<"\n">>
            ELSE acc,
            docs, Tail(order))

RECURSIVE crontab_string(_, _, _)
\* set_crontab's crontab_string after tabs.forEach over the ids in order,
\* starting from acc: schedule, a space, the fragment and a newline for every
\* job that is not stopped
crontab_string(acc, docs, order) ==
  IF order = <<>> THEN acc
  ELSE LET id == Head(order)
           tab == docs[id]
       IN crontab_string(
            IF ~tab.stopped
            THEN acc \o tab.schedule \o <<" ">> \o make_command(id, tab) \o <<"\n">>
            ELSE acc,
            docs, Tail(order))

(* ----------------------------------------------------------------------- *)
(* Publish: set_crontab (crontab.js) and its callers (app.js)              *)
(* ----------------------------------------------------------------------- *)

RECURSIVE SortById(_, _)
\* the _ids of docs in ascending order, the order of their creation
SortById(docs, ids) ==
  IF ids = {} THEN <<>>
  ELSE LET first == CHOOSE j \in ids : \A k \in ids : j <= k
       IN <<first>> \o SortById(docs, ids \ {first})

RECURSIVE SortByCreated(_, _)
\* find({}).sort({created: -1}): the _ids of docs, newest created first
SortByCreated(docs, ids) ==
  IF ids = {} THEN <<>>
  ELSE LET first == CHOOSE j \in ids :
                      \A k \in ids : \/ docs[j].created > docs[k].created
                                     \/ docs[j].created = docs[k].created /\ j <= k
       IN <<first>> \o SortByCreated(docs, ids \ {first})

\* The job a line of crontab_string was compiled from: its schedule and
\* what make_command reads of it
Line(id, tab) ==
  [id |-> id, schedule |-> tab.schedule, command |-> tab.command,
   logging |-> tab.logging, mailing |-> tab.mailing]

RECURSIVE LinesOf(_, _)
\* tabs.forEach: one line per job that is not stopped, in the order of tabs
LinesOf(docs, order) ==
  IF order = <<>> THEN <<>>
  ELSE (IF docs[Head(order)].stopped THEN <<>>
        ELSE <<Line(Head(order), docs[Head(order)])>>)
       \o LinesOf(docs, Tail(order))

\* The jobs a schedule text has a line for
Included(lines) == {lines[k].id : k \in DOMAIN lines}

\* A finished invocation: its locals are gone, what it reported stays
Finished(cbs) == [pc |-> "done", env |-> <<>>, lines |-> <<>>, text |-> <<>>, cbs |-> cbs]

\* set_crontab is called and asks the store for the jobs (exports.crontabs)
set_crontab(p, env) ==
  /\ pub[p].pc \in {"idle", "done"}
  /\ \A q \in Publishers : q < p => pub[q].pc \notin {"idle", "done"}
  /\ publishes < MaxPublishes
  /\ publishes' = publishes + 1
  /\ pub' = [pub EXCEPT ![p] = [pc |-> "find", env |-> env, lines |-> <<>>, text |-> <<>>,
                                 cbs |-> <<>>]]

\* The publish route: set_crontab with the request's env_vars
PublishRoute(p, env) ==
  /\ backendType = "nedb"
  /\ set_crontab(p, env)
  /\ UNCHANGED <<commonVars, manager, store, envFile, cronFile, installed, fileChanged, dbVars>>

\* get_env: what env.db holds, the empty string when the file does not exist
get_env == envFile

\* The watcher on crontab.db fires: autosave_crontab calls set_crontab with get_env()
AutosaveWatcher(p) ==
  /\ backendType = "nedb"
  /\ fileChanged
  /\ fileChanged' = FALSE
  /\ set_crontab(p, get_env)
  /\ UNCHANGED <<commonVars, manager, store, envFile, cronFile, installed, dbVars>>

\* The find callback: builds crontab_string (text; lines keeps the job each
\* of its lines was compiled from) and starts writing env.db
CrontabsCallback(p) ==
  /\ pub[p].pc = "find"
  /\ LET tabs == SortByCreated(store, DOMAIN store)
         start == IF pub[p].env # <<>> THEN pub[p].env \o <<"\n">> ELSE <<>>
     IN pub' = [pub EXCEPT ![p].pc = "writeEnv",
                           ![p].lines = LinesOf(store, tabs),
                           ![p].text = crontab_string(start, store, tabs)]
  /\ UNCHANGED <<commonVars, manager, store, envFile, cronFile, installed, fileChanged, publishes,
                 dbVars>>

\* The callback of fs.writeFile(env_file): on an error it calls callback(err)
\* and, not returning, goes on to write the schedule file
WriteEnvCallback(p, ok) ==
  /\ pub[p].pc = "writeEnv"
  /\ envFile' = IF ok THEN pub[p].env ELSE envFile
  /\ pub' = [pub EXCEPT ![p].pc = "writeCron",
                        ![p].cbs = IF ok THEN @ ELSE Append(@, "err")]
  /\ UNCHANGED <<commonVars, manager, store, cronFile, installed, fileChanged, publishes, dbVars>>

\* The callback of fs.writeFile(schedule file): on an error callback(err) and
\* return, else run the host's crontab command on the file
WriteCronCallback(p, ok) ==
  /\ pub[p].pc = "writeCron"
  /\ cronFile' = IF ok
                 THEN [env |-> pub[p].env, lines |-> pub[p].lines, text |-> pub[p].text]
                 ELSE cronFile
  /\ pub' = [pub EXCEPT ![p] = IF ok THEN [@ EXCEPT !.pc = "exec"]
                                  ELSE Finished(Append(@.cbs, "err"))]
  /\ UNCHANGED <<commonVars, manager, store, envFile, installed, fileChanged, publishes, dbVars>>

\* an update without $set, which puts {saved: true} in place of every document
MarkAllSavedReplacing(docs) ==
  [j \in DOMAIN docs |->
     [name |-> <<>>, command |-> <<>>, schedule |-> <<>>, stopped |-> FALSE,
      logging |-> FALSE, mailing |-> {}, created |-> 0, saved |-> TRUE]]

\* db.update({}, {$set: {saved: true}}, {multi: true})
MarkAllSaved(docs) == [j \in DOMAIN docs |-> [docs[j] EXCEPT !.saved = TRUE]]

\* exec's callback marking the jobs saved whatever the command's outcome
ExecCallbackMarksAlways(p, ok) ==
  /\ pub[p].pc = "exec"
  /\ installed' = IF ok THEN cronFile ELSE installed
  /\ store' = MarkAllSaved(store)
  /\ fileChanged' = (fileChanged \/ DOMAIN store # {})
  /\ pub' = [pub EXCEPT ![p] = Finished(Append(@.cbs, IF ok THEN "ok" ELSE "err"))]
  /\ UNCHANGED <<commonVars, manager, envFile, cronFile, publishes, dbVars>>

\* The callback of exec("crontab <file>"): the host has installed what the file
\* holds, or the command failed; on success every document is marked saved
ExecCallback(p, ok) ==
  /\ pub[p].pc = "exec"
  /\ installed' = IF ok THEN cronFile ELSE installed
  /\ store' = IF ok THEN MarkAllSaved(store) ELSE store
  /\ fileChanged' = (fileChanged \/ (ok /\ DOMAIN store # {}))
  /\ pub' = [pub EXCEPT ![p] = Finished(Append(@.cbs, IF ok THEN "ok" ELSE "err"))]
  /\ UNCHANGED <<commonVars, manager, envFile, cronFile, publishes, dbVars>>


\* Time passes between two requests: Date.now() of createCrontab grows
ClockStep ==
  /\ backendType = "nedb"
  /\ now < MaxNow
  /\ now' = now + 1
  /\ UNCHANGED <<backendType, manager, ops, last, nextId, legacyVars, dbVars>>

(* ----------------------------------------------------------------------- *)
(* Import of an exported crontab.db (app.js)                               *)
(* ----------------------------------------------------------------------- *)

\* The documents of the crontab.db files a client uploads: a file written by
\* a release that stored any non-empty schedule holds, next to a job that
\* passes today's checks, one whose schedule cron-parser does not parse
ImportedFiles ==
  { (1 :> [name |-> S_name, command |-> S_echo, schedule |-> S_2am,
           stopped |-> FALSE, logging |-> FALSE, mailing |-> {},
           created |-> 0, saved |-> TRUE])
    @@ (2 :> [name |-> <<>>, command |-> S_ls, schedule |-> S_bad,
              stopped |-> FALSE, logging |-> FALSE, mailing |-> {},
              created |-> 0, saved |-> FALSE]) }

\* The import route: the uploaded file replaces crontab.db and reload_db
\* loads it, so the store holds the file's documents, none of them checked
ImportRoute(file) ==
  /\ backendType = "nedb"
  /\ ops < MaxOps
  /\ ops' = ops + 1
  /\ store' = file
  /\ nextId' = IF nextId > Cardinality(DOMAIN file) THEN nextId
               ELSE Cardinality(DOMAIN file) + 1
  /\ fileChanged' = TRUE
  /\ last' = Returned("import", 0, <<>>, "")
  /\ UNCHANGED <<backendType, manager, now, pub, envFile, cronFile, installed, publishes, dbVars>>

(* ----------------------------------------------------------------------- *)
(* Restore of a backup (crontab.js, app.js)                                *)
(* ----------------------------------------------------------------------- *)

\* Where the copy of a backup over crontab.db can be when loadDatabase reads
\* crontab.db: -1 when the write stream has not opened, and so not emptied,
\* the file yet; else the number of documents written so far
LoadPoints(file) == -1 .. Cardinality(DOMAIN file)

\* crontab.db after the first k documents of file were written to it
Copied(file, k) == [j \in {i \in DOMAIN file : i <= k} |-> file[j]]

\* restore: starts the copy of the backup over crontab.db, a pipe between two
\* streams that goes on after restore has returned, and right away calls
\* db.loadDatabase(), which reads crontab.db as it is when the read happens
restore(file, k) ==
  /\ backendType = "nedb"
  /\ ops < MaxOps
  /\ ops' = ops + 1
  /\ k \in LoadPoints(file)
  /\ store' = IF k = -1 THEN store ELSE Copied(file, k)
  /\ nextId' = IF nextId > Cardinality(DOMAIN store') THEN nextId
               ELSE Cardinality(DOMAIN store') + 1
  /\ fileChanged' = TRUE
  /\ last' = Returned("restore", 0, <<>>, "")
  /\ UNCHANGED <<backendType, manager, now, pub, envFile, cronFile, installed, publishes, dbVars>>

(* ----------------------------------------------------------------------- *)
(* Import of the host's crontab (crontab.js)                               *)
(* ----------------------------------------------------------------------- *)

\* Lines of the host's crontab, as import_crontab's regular expression
\* splits them into a schedule and a command
HostLines ==
  { [schedule |-> S_2am, command |-> S_echo],
    [schedule |-> S_daily, command |-> Trim(S_ls)] }

RECURSIVE SeqsUpTo(_, _)
\* The sequences of at most n elements of S
SeqsUpTo(S, n) ==
  IF n = 0 THEN {<<>>}
  ELSE LET shorter == SeqsUpTo(S, n - 1)
       IN shorter \cup {Append(s, x) : s \in shorter, x \in S}

\* What "crontab -l" prints: no line, or lines that may repeat
HostCrontabs == SeqsUpTo(HostLines, MaxJobs)

\* namePrefix + '_' + index, namePrefix the time of the import
ImportName(time, index) == <<DigitChar(time), "_", DigitChar(index)>>

\* createCrontab's verdict on the job create_new is given for a line
ImportError ==
  [line \in HostLines |->
     createCrontabError(ImportName(0, 0), line.command, line.schedule)]

\* db.findOne({command, schedule}): the documents that match
Matching(docs, line) ==
  {j \in DOMAIN docs : docs[j].command = line.command /\ docs[j].schedule = line.schedule}

RECURSIVE ImportedInto(_, _, _, _, _, _)
\* The store after the writes of an import.  lines.forEach calls db.findOne
\* for every line before any callback runs, and the datastore runs its
\* operations in the order they were asked for: every findOne sees the store
\* as it was (before), and the inserts and updates that the callbacks ask
\* for come after the last findOne, in the order of the lines.
ImportedInto(before, docs, lines, index, nid, time) ==
  IF lines = <<>> THEN docs
  ELSE LET line == Head(lines)
           hits == Matching(before, line)
           doc == CHOOSE j \in hits : \A k \in hits : j <= k
           is_valid == validateCronSchedule(line.schedule)
           accepted == /\ line.command # <<>> /\ line.schedule # <<>> /\ is_valid
                       /\ ImportError[line] = ""
           created == createCrontab(ImportName(time, index), line.command, line.schedule,
                                    "bool:false", "null", {}, time)
           updated == createCrontab(before[doc].name, line.command, line.schedule, "null",
                                    IF before[doc].logging THEN "bool:true" ELSE "bool:false",
                                    before[doc].mailing, time)
       IN IF ~accepted
          THEN ImportedInto(before, docs, Tail(lines), index + 1, nid, time)
          ELSE IF hits = {}
          THEN ImportedInto(before, (nid :> created) @@ docs, Tail(lines), index + 1,
                            nid + 1, time)
          ELSE ImportedInto(before,
                            IF doc \in DOMAIN docs
                            THEN [docs EXCEPT ![doc] = [updated EXCEPT !.saved = FALSE]]
                            ELSE docs,
                            Tail(lines), index + 1, nid, time)

\* import_crontab: the lines of "crontab -l" become jobs
import_crontab(lines) ==
  /\ backendType = "nedb"
  /\ ops < MaxOps
  /\ ops' = ops + 1
  /\ store' = ImportedInto(store, store, lines, 0, nextId, now)
  /\ nextId' = nextId + Cardinality(DOMAIN store') - Cardinality(DOMAIN store)
  /\ nextId' <= MaxJobs + 1
  /\ fileChanged' = (fileChanged \/ \E k \in DOMAIN lines : ImportError[lines[k]] = "")
  /\ last' = Returned("import_crontab", 0, lines, "")
  /\ UNCHANGED <<backendType, manager, now, pub, envFile, cronFile, installed, publishes, dbVars>>
(* ----------------------------------------------------------------------- *)
(* DatabaseManager: rows, conversions and the cache                        *)
(* ----------------------------------------------------------------------- *)

\* this.cacheTTL (config.cache.ttl * 1000 ms), in clock steps
CacheTTL == 0

\* config.cache.maxEntries
MaxEntries == 2

\* DatabaseManager calls that can be in flight together
Clients == {1, 2}

\* The data argument of createCrontab and updateCrontab
DataInputs == {c \in Proposals : ProposalError[c] = ""}

\* The data of a job as crontab.js's createCrontab builds it at a given time:
\* logging a boolean, created the time (stopped, which createCrontab also sets
\* and updateStatus changes, is left to updateStatus here)
TabData(time) ==
  { [name |-> d.name, command |-> d.command, schedule |-> d.schedule,
     logging |-> IF Boolean(d.logging) THEN "bool:true" ELSE "bool:false",
     mailing |-> d.mailing, created |-> time] : d \in DataInputs }

IdleCall == [pc |-> "idle", op |-> "none", id |-> 0, arg |-> <<>>, json |-> <<>>]

S_getCrontab     == <<"g", "e", "t", "C", "r", "o", "n", "t", "a", "b">>
S_getAllCrontabs == <<"g", "e", "t", "A", "l", "l", "C", "r", "o", "n", "t", "a", "b", "s">>

\* JSON.stringify(params): {} for getAllCrontabs (id 0), {"id":"<id>"} for getCrontab
ParamsJSON(id) ==
  IF id = 0 THEN <<"{", "}">>
  ELSE <<"{", "\"", "i", "d", "\"", ":", "\"", DigitChar(id), "\"", "}">>

\* getCacheKey: `${operation}:${JSON.stringify(params)}`
getCacheKey(operation, id) == operation \o <<":">> \o ParamsJSON(id)

\* The index of the entry of the Map m under key, 0 if there is none
EntryOf(m, key) ==
  IF \E k \in DOMAIN m : m[k].key = key
  THEN CHOOSE k \in DOMAIN m : m[k].key = key
  ELSE 0

\* Map.delete of the entry at index k
DeleteAt(m, k) == SubSeq(m, 1, k - 1) \o SubSeq(m, k + 1, Len(m))

\* The entry a sort by descending timestamp puts first
Newest(m) ==
  CHOOSE k \in DOMAIN m :
    \A l \in DOMAIN m : m[k].timestamp > m[l].timestamp
                        \/ (m[k].timestamp = m[l].timestamp /\ k <= l)

\* The entry a stable sort by timestamp puts first
Oldest(m) ==
  CHOOSE k \in DOMAIN m :
    \A l \in DOMAIN m : m[k].timestamp < m[l].timestamp
                        \/ (m[k].timestamp = m[l].timestamp /\ k <= l)

\* setCache without the eviction
setCacheKeepsOldest(m, key, value, time) ==
  LET entry == [key |-> key, value |-> value, timestamp |-> time]
  IN IF EntryOf(m, key) = 0 THEN Append(m, entry)
     ELSE [m EXCEPT ![EntryOf(m, key)] = entry]

\* setCache: Map.set keeps the place of a key the Map already has; then the
\* oldest entry goes if the Map has grown over maxEntries
setCache(m, key, value, time) ==
  LET entry == [key |-> key, value |-> value, timestamp |-> time]
      put == IF EntryOf(m, key) = 0 THEN Append(m, entry)
             ELSE [m EXCEPT ![EntryOf(m, key)] = entry]
  IN IF Len(put) > MaxEntries THEN DeleteAt(put, Oldest(put)) ELSE put

\* getCache serving whatever entry it finds
getCacheIgnoresTTL(m, key, time) ==
  LET k == EntryOf(m, key)
  IN IF k = 0 THEN [hit |-> FALSE, cache |-> m]
     ELSE [hit |-> TRUE, cache |-> m, value |-> m[k].value]

\* getCache: the value under key, if there is an entry and it has not
\* outlived the TTL; an entry that has is deleted
getCache(m, key, time) ==
  LET k == EntryOf(m, key)
  IN IF k = 0 THEN [hit |-> FALSE, cache |-> m]
     ELSE IF time - m[k].timestamp > CacheTTL
          THEN [hit |-> FALSE, cache |-> DeleteAt(m, k)]
          ELSE [hit |-> TRUE, cache |-> m, value |-> m[k].value]

\* clearCache deleting nothing
clearCacheKeepsAll(m, pattern) == m

\* clearCache(pattern): the entries whose key includes the pattern go, all of
\* them for the empty pattern
clearCache(m, pattern) ==
  IF pattern = <<>> THEN <<>>
  ELSE SelectSeq(m, LAMBDA e : ~Includes(e.key, pattern))

\* x ? 1 : 0
Bit(x) == IF x THEN 1 ELSE 0

\* The fields of a job object
Field(o, f, default) == IF f \in DOMAIN o THEN o[f] ELSE default

\* insertCrontab.run: the row sqlite stores for createCrontab(data); created is
\* data.created || Date.now()
InsertedRow(id, data, time) ==
  [ _id |-> id,
    name |-> data.name,
    command |-> data.command,
    schedule |-> data.schedule,
    stopped |-> Bit(Boolean(Field(data, "stopped", "undefined"))),
    logging |-> Bit(Boolean(Field(data, "logging", "undefined"))),
    mailing |-> Field(data, "mailing", {}),
    created |-> IF Field(data, "created", 0) # 0 THEN data.created ELSE time,
    saved |-> 0 ]

\* updateCrontab.run: name, command, schedule, logging, mailing and saved of the row
UpdatedRow(row, data) ==
  [row EXCEPT !.name = data.name,
              !.command = data.command,
              !.schedule = data.schedule,
              !.logging = Bit(Boolean(Field(data, "logging", "undefined"))),
              !.mailing = Field(data, "mailing", {}),
              !.saved = 0]

\* What getCrontab and getAllCrontabs make of a sqlite row: flags as booleans
FromRow(row) ==
  [row EXCEPT !.stopped = (row.stopped # 0),
              !.logging = IF row.logging # 0 THEN "bool:true" ELSE "bool:false",
              !.saved = (row.saved # 0)]

\* The fields of a job whose value the model writes with its JavaScript type
LooseFields == {"logging"}

\* JSON.parse(JSON.stringify(o)): the fields whose value is undefined are gone
JSONRoundTrip(o) ==
  [f \in DOMAIN o \ {g \in DOMAIN o \cap LooseFields : o[g] = "undefined"} |-> o[f]]

\* { ...a, ...b }
Spread(a, b) == [f \in DOMAIN a \cup DOMAIN b |-> IF f \in DOMAIN b THEN b[f] ELSE a[f]]

\* What a read gives back for one job: the job of the backend, as a sequence
\* of at most one object (empty for null)
ReadJob(type, table, id) ==
  IF id \notin DOMAIN table THEN <<>>
  ELSE IF type = "sqlite" THEN <<FromRow(table[id])>>
  ELSE <<table[id]>>

RECURSIVE ReadAllIn(_, _, _)
ReadAllIn(type, table, order) ==
  IF order = <<>> THEN <<>>
  ELSE ReadJob(type, table, Head(order)) \o ReadAllIn(type, table, Tail(order))

\* What a read gives back for all jobs: ORDER BY created DESC, or the values
\* of the hash sorted by created, newest first
ReadAll(type, table) == ReadAllIn(type, table, SortByCreated(table, DOMAIN table))

(* ----------------------------------------------------------------------- *)
(* DatabaseManager: the operations                                         *)
(*                                                                         *)
(* A sqlite statement runs synchronously, so a sqlite operation is one     *)
(* step.  A redis command is awaited: the operation stops at the command   *)
(* and goes on when its reply comes.  The one connection answers the       *)
(* commands in the order they were sent, and a command takes effect in     *)
(* that order too.                                                         *)
(* ----------------------------------------------------------------------- *)

\* A call starts in the first free slot
Starts(c) ==
  /\ backendType \in {"sqlite", "redis"}
  /\ call[c].pc = "idle"
  /\ \A q \in Clients : q < c => call[q].pc # "idle"

\* The call of c stops at a redis command
Awaits(c, pc, op, id, arg, json) ==
  /\ call' = [call EXCEPT ![c] = [pc |-> pc, op |-> op, id |-> id, arg |-> arg,
                                  json |-> json]]
  /\ wire' = Append(wire, c)

\* The reply to the redis command the call of c stopped at has come
Resumes(c, pc, op) ==
  /\ backendType = "redis"
  /\ wire # <<>>
  /\ Head(wire) = c
  /\ call[c].pc = pc
  /\ call[c].op = op

\* The call of c returns
Completes(c, op, id, arg, out) ==
  /\ call' = [call EXCEPT ![c] = IdleCall]
  /\ last' = Returned(op, id, arg, out)

\* A mutating call is counted
Counted ==
  /\ ops < MaxOps
  /\ ops' = ops + 1

\* createCrontab: a row under a fresh id; only the getAllCrontabs entries of
\* the cache are cleared
db_createCrontab(c, data) ==
  /\ Starts(c)
  /\ Counted
  /\ nextId <= MaxJobs
  /\ nextId' = nextId + 1
  /\ IF backendType = "sqlite"
     THEN /\ rows' = (nextId :> InsertedRow(nextId, data, now)) @@ rows
          /\ cache' = clearCache(cache, S_getAllCrontabs)
          /\ Completes(c, "createCrontab", nextId, data, <<>>)
          /\ UNCHANGED wire
     ELSE /\ Awaits(c, "hset", "createCrontab", nextId, data,
                    JSONRoundTrip(Spread(data, [_id |-> nextId, created |-> now,
                                                saved |-> FALSE])))
          /\ UNCHANGED <<rows, cache, last>>
  /\ UNCHANGED <<backendType, manager, now, legacyVars>>

db_createCrontabReply(c) ==
  /\ Resumes(c, "hset", "createCrontab")
  /\ rows' = (call[c].id :> call[c].json) @@ rows
  /\ cache' = clearCache(cache, S_getAllCrontabs)
  /\ wire' = Tail(wire)
  /\ Completes(c, "createCrontab", call[c].id, call[c].arg, <<>>)
  /\ UNCHANGED <<backendType, manager, now, ops, nextId, legacyVars>>

\* getCrontab: the cached job, or the backend's, which is cached if there is one
db_getCrontab(c, id) ==
  /\ Starts(c)
  /\ LET cached == getCache(cache, getCacheKey(S_getCrontab, id), now)
         result == ReadJob(backendType, rows, id)
     IN IF cached.hit
        THEN /\ Completes(c, "getCrontab", id, <<>>, <<cached.value>>)
             /\ UNCHANGED <<cache, wire>>
        ELSE IF backendType = "sqlite"
        THEN /\ cache' = IF result # <<>>
                         THEN setCache(cached.cache, getCacheKey(S_getCrontab, id),
                                       result[1], now)
                         ELSE cached.cache
             /\ Completes(c, "getCrontab", id, <<>>, result)
             /\ UNCHANGED wire
        ELSE /\ cache' = cached.cache
             /\ Awaits(c, "hget", "getCrontab", id, <<>>, <<>>)
             /\ UNCHANGED last
  /\ UNCHANGED <<backendType, manager, now, ops, nextId, rows, legacyVars>>

db_getCrontabReply(c) ==
  /\ Resumes(c, "hget", "getCrontab")
  /\ LET result == ReadJob(backendType, rows, call[c].id)
     IN /\ cache' = IF result # <<>>
                    THEN setCache(cache, getCacheKey(S_getCrontab, call[c].id),
                                  result[1], now)
                    ELSE cache
        /\ Completes(c, "getCrontab", call[c].id, <<>>, result)
  /\ wire' = Tail(wire)
  /\ UNCHANGED <<backendType, manager, now, ops, nextId, rows, legacyVars>>

\* getAllCrontabs: the cached list, or the backend's, which is cached
db_getAllCrontabs(c) ==
  /\ Starts(c)
  /\ LET cached == getCache(cache, getCacheKey(S_getAllCrontabs, 0), now)
     IN IF cached.hit
        THEN /\ Completes(c, "getAllCrontabs", 0, <<>>, cached.value)
             /\ UNCHANGED <<cache, wire>>
        ELSE IF backendType = "sqlite"
        THEN /\ cache' = setCache(cached.cache, getCacheKey(S_getAllCrontabs, 0),
                                  ReadAll(backendType, rows), now)
             /\ Completes(c, "getAllCrontabs", 0, <<>>, ReadAll(backendType, rows))
             /\ UNCHANGED wire
        ELSE /\ cache' = cached.cache
             /\ Awaits(c, "hgetall", "getAllCrontabs", 0, <<>>, <<>>)
             /\ UNCHANGED last
  /\ UNCHANGED <<backendType, manager, now, ops, nextId, rows, legacyVars>>

db_getAllCrontabsReply(c) ==
  /\ Resumes(c, "hgetall", "getAllCrontabs")
  /\ cache' = setCache(cache, getCacheKey(S_getAllCrontabs, 0),
                       ReadAll(backendType, rows), now)
  /\ Completes(c, "getAllCrontabs", 0, <<>>, ReadAll(backendType, rows))
  /\ wire' = Tail(wire)
  /\ UNCHANGED <<backendType, manager, now, ops, nextId, rows, legacyVars>>

\* deleteCrontab: the row goes, the cache is cleared
db_deleteCrontab(c, id) ==
  /\ Starts(c)
  /\ Counted
  /\ IF backendType = "sqlite"
     THEN /\ rows' = [j \in DOMAIN rows \ {id} |-> rows[j]]
          /\ cache' = clearCache(cache, <<>>)
          /\ Completes(c, "deleteCrontab", id, <<>>, <<>>)
          /\ UNCHANGED wire
     ELSE /\ Awaits(c, "hdel", "deleteCrontab", id, <<>>, <<>>)
          /\ UNCHANGED <<rows, cache, last>>
  /\ UNCHANGED <<backendType, manager, now, nextId, legacyVars>>

db_deleteCrontabReply(c) ==
  /\ Resumes(c, "hdel", "deleteCrontab")
  /\ rows' = [j \in DOMAIN rows \ {call[c].id} |-> rows[j]]
  /\ cache' = clearCache(cache, <<>>)
  /\ wire' = Tail(wire)
  /\ Completes(c, "deleteCrontab", call[c].id, <<>>, <<>>)
  /\ UNCHANGED <<backendType, manager, now, ops, nextId, legacyVars>>

\* { ...existing, ...data, saved: false }
Updated(existing, data) == Spread(Spread(existing, data), [saved |-> FALSE])

\* existing.stopped = stopped; existing.saved = false
WithStatus(existing, stopped) == Spread(existing, [stopped |-> stopped, saved |-> FALSE])

\* The cache after the object under key, if it has one, was assigned to
ChangedInPlace(m, key, value) ==
  IF EntryOf(m, key) = 0 THEN m ELSE [m EXCEPT ![EntryOf(m, key)].value = value]

\* updateCrontab: sqlite updates the row if there is one; redis reads the job
\* through getCrontab and, if there is one, writes it back with the data
\* spread over it.  Either way the cache is cleared at the end.
db_updateCrontab(c, id, data) ==
  /\ Starts(c)
  /\ Counted
  /\ LET cached == getCache(cache, getCacheKey(S_getCrontab, id), now)
     IN IF backendType = "sqlite"
        THEN /\ rows' = IF id \in DOMAIN rows
                        THEN [rows EXCEPT ![id] = UpdatedRow(rows[id], data)]
                        ELSE rows
             /\ cache' = clearCache(cache, <<>>)
             /\ Completes(c, "updateCrontab", id, data, <<>>)
             /\ UNCHANGED wire
        ELSE IF cached.hit
        THEN /\ Awaits(c, "hset", "updateCrontab", id, data,
                       JSONRoundTrip(Updated(cached.value, data)))
             /\ UNCHANGED <<rows, cache, last>>
        ELSE /\ cache' = cached.cache
             /\ Awaits(c, "hget", "updateCrontab", id, data, <<>>)
             /\ UNCHANGED <<rows, last>>
  /\ UNCHANGED <<backendType, manager, now, nextId, legacyVars>>

\* The reply to getCrontab's hget within updateCrontab
db_updateCrontabExisting(c) ==
  /\ Resumes(c, "hget", "updateCrontab")
  /\ LET id == call[c].id
         result == ReadJob(backendType, rows, id)
     IN IF result # <<>>
        THEN /\ cache' = setCache(cache, getCacheKey(S_getCrontab, id), result[1], now)
             /\ call' = [call EXCEPT ![c].pc = "hset",
                                     ![c].json = JSONRoundTrip(Updated(result[1], call[c].arg))]
             /\ wire' = Append(Tail(wire), c)
             /\ UNCHANGED last
        ELSE /\ cache' = clearCache(cache, <<>>)
             /\ wire' = Tail(wire)
             /\ Completes(c, "updateCrontab", id, call[c].arg, <<>>)
  /\ UNCHANGED <<backendType, manager, now, ops, nextId, rows, legacyVars>>

\* The end of a redis updateCrontab that leaves the cache as it is
db_updateCrontabReplyKeepsCache(c) ==
  /\ Resumes(c, "hset", "updateCrontab")
  /\ rows' = (call[c].id :> call[c].json) @@ rows
  /\ wire' = Tail(wire)
  /\ Completes(c, "updateCrontab", call[c].id, call[c].arg, <<>>)
  /\ UNCHANGED <<backendType, manager, now, ops, nextId, cache, legacyVars>>

db_updateCrontabReply(c) ==
  /\ Resumes(c, "hset", "updateCrontab")
  /\ rows' = (call[c].id :> call[c].json) @@ rows
  /\ cache' = clearCache(cache, <<>>)
  /\ wire' = Tail(wire)
  /\ Completes(c, "updateCrontab", call[c].id, call[c].arg, <<>>)
  /\ UNCHANGED <<backendType, manager, now, ops, nextId, legacyVars>>

\* updateStatus: sqlite updates stopped and saved of the row if there is one;
\* redis reads the job through getCrontab, assigns stopped and saved on the
\* object it got, which is the object the cache holds, and writes it back.
\* Either way the cache is cleared at the end.
db_updateStatus(c, id, stopped) ==
  /\ Starts(c)
  /\ Counted
  /\ LET key == getCacheKey(S_getCrontab, id)
         cached == getCache(cache, key, now)
     IN IF backendType = "sqlite"
        THEN /\ rows' = IF id \in DOMAIN rows
                        THEN [rows EXCEPT ![id].stopped = Bit(stopped), ![id].saved = 0]
                        ELSE rows
             /\ cache' = clearCache(cache, <<>>)
             /\ Completes(c, "updateStatus", id, stopped, <<>>)
             /\ UNCHANGED wire
        ELSE IF cached.hit
        THEN /\ cache' = ChangedInPlace(cache, key, WithStatus(cached.value, stopped))
             /\ Awaits(c, "hset", "updateStatus", id, stopped,
                       JSONRoundTrip(WithStatus(cached.value, stopped)))
             /\ UNCHANGED <<rows, last>>
        ELSE /\ cache' = cached.cache
             /\ Awaits(c, "hget", "updateStatus", id, stopped, <<>>)
             /\ UNCHANGED <<rows, last>>
  /\ UNCHANGED <<backendType, manager, now, nextId, legacyVars>>

\* The reply to getCrontab's hget within updateStatus
db_updateStatusExisting(c) ==
  /\ Resumes(c, "hget", "updateStatus")
  /\ LET id == call[c].id
         key == getCacheKey(S_getCrontab, id)
         result == ReadJob(backendType, rows, id)
     IN IF result # <<>>
        THEN /\ cache' = ChangedInPlace(setCache(cache, key, result[1], now), key,
                                        WithStatus(result[1], call[c].arg))
             /\ call' = [call EXCEPT ![c].pc = "hset",
                                     ![c].json = JSONRoundTrip(WithStatus(result[1], call[c].arg))]
             /\ wire' = Append(Tail(wire), c)
             /\ UNCHANGED last
        ELSE /\ cache' = clearCache(cache, <<>>)
             /\ wire' = Tail(wire)
             /\ Completes(c, "updateStatus", id, call[c].arg, <<>>)
  /\ UNCHANGED <<backendType, manager, now, ops, nextId, rows, legacyVars>>

db_updateStatusReply(c) ==
  /\ Resumes(c, "hset", "updateStatus")
  /\ rows' = (call[c].id :> call[c].json) @@ rows
  /\ cache' = clearCache(cache, <<>>)
  /\ wire' = Tail(wire)
  /\ Completes(c, "updateStatus", call[c].id, call[c].arg, <<>>)
  /\ UNCHANGED <<backendType, manager, now, ops, nextId, legacyVars>>

\* What a call that threw gives its caller: the error it logged and rethrew
WriteFailed == <<[error |-> TRUE]>>

\* The sqlite statement of updateCrontab or updateStatus throws: the catch
\* logs and rethrows, and clearCache, after the statement, is not reached
db_runThrows(c, op, id) ==
  /\ Starts(c)
  /\ backendType = "sqlite"
  /\ Counted
  /\ last' = Returned(op, id, <<>>, WriteFailed)
  /\ UNCHANGED <<backendType, manager, now, nextId, legacyVars, dbVars>>

\* The hset of a redis updateCrontab or updateStatus is rejected: the catch
\* logs and rethrows, and clearCache, after the await, is not reached
db_hsetRejects(c) ==
  /\ \E op \in {"updateCrontab", "updateStatus"} : Resumes(c, "hset", op)
  /\ wire' = Tail(wire)
  /\ Completes(c, call[c].op, call[c].id, call[c].arg, WriteFailed)
  /\ UNCHANGED <<backendType, manager, now, ops, nextId, rows, cache, legacyVars>>

\* Time passes
Tick ==
  /\ backendType \in {"sqlite", "redis"}
  /\ now < MaxNow
  /\ now' = now + 1
  /\ UNCHANGED <<backendType, manager, ops, last, nextId, legacyVars, dbVars>>


(* ----------------------------------------------------------------------- *)
(* ClusterManager (cluster.js): the primary process and its workers        *)
(*                                                                         *)
(* manager.clusterWorkers is Node's cluster.workers: a worker stays in it  *)
(* until its process has exited and its channel has disconnected, in       *)
(* either order.  Timers are enabled from the moment they are set; the     *)
(* order in which timers of different delays fire is left open.            *)
(* ----------------------------------------------------------------------- *)

\* this.workerCount (config.server.workers)
WorkerCount == 1

\* this.maxRestarts
maxRestarts == 5

\* Workers forked in one run of the model
MaxForks == 3

\* Workers forked in one run of the model in which every worker keeps
\* crashing: one more than the initial workers and maxRestarts restarts of each
CrashLoopForks == WorkerCount * (maxRestarts + 1) + 1

\* No cluster: the application runs in the one process
NoCluster ==
  [clusterWorkers |-> <<>>, restartCounts |-> <<>>, isShuttingDown |-> FALSE,
   restartTimers |-> 0, shutdownWorkers |-> {}, exitCode |-> -1, nextWorkerId |-> 1]

\* A worker that cluster.fork() has just made
NewWorker == [dead |-> FALSE, connected |-> TRUE, exitedAfterDisconnect |-> FALSE,
              signalled |-> FALSE]

\* map.get(key) || 0
GetOrZero(map, key) == IF key \in DOMAIN map THEN map[key] ELSE 0

\* map.delete(key)
Delete(map, key) == [k \in DOMAIN map \ {key} |-> map[k]]

\* The workers of cluster.workers that have not exited
Live(m) == {w \in DOMAIN m.clusterWorkers : ~m.clusterWorkers[w].dead}

\* worker.isDead()
isDead(m, w) == IF w \in DOMAIN m.clusterWorkers THEN m.clusterWorkers[w].dead ELSE TRUE

\* forkWorker: cluster.fork() gives the worker a fresh id, and the restart
\* count kept under that id, none yet, becomes 0
forkWorker(m) ==
  LET id == m.nextWorkerId
  IN [m EXCEPT !.clusterWorkers = (id :> NewWorker) @@ @,
               !.restartCounts = (id :> GetOrZero(@, id)) @@ @,
               !.nextWorkerId = id + 1]

RECURSIVE startMaster(_, _)
\* startMaster: forkWorker workerCount times
startMaster(m, n) == IF n = 0 THEN m ELSE startMaster(forkWorker(m), n - 1)

\* handleWorkerExit for worker w, which died with a non-zero code or signal
\* (crashed) or with code 0, and whose exitedAfterDisconnect is exited
handleWorkerExit(m, w, crashed, exited) ==
  IF m.isShuttingDown THEN m
  ELSE LET restarts == GetOrZero(m.restartCounts, w)
           counted ==
             IF crashed /\ ~exited
             THEN IF restarts < maxRestarts
                  THEN [m EXCEPT !.restartCounts = (w :> restarts + 1) @@ @,
                                 !.restartTimers = @ + 1]
                  ELSE [m EXCEPT !.restartCounts = Delete(@, w)]
             ELSE m
       IN IF Cardinality(DOMAIN counted.clusterWorkers) < WorkerCount
          THEN forkWorker(counted)
          ELSE counted

\* The manager changes, within the forks of one run, and nothing else does
ManagerBecomes(m) ==
  /\ m.nextWorkerId <= CrashLoopForks + 1
  /\ manager' = m
  /\ UNCHANGED <<commonVars, legacyVars, dbVars>>

\* A worker's process exits: Node marks it dead, drops it from cluster.workers
\* if its channel has disconnected, and emits 'exit', which handleWorkerExit
\* handles
WorkerExits(w, crashed) ==
  /\ manager.exitCode = -1
  /\ w \in Live(manager)
  /\ LET worker == manager.clusterWorkers[w]
         listed == IF worker.connected
                   THEN [manager.clusterWorkers EXCEPT ![w].dead = TRUE]
                   ELSE Delete(manager.clusterWorkers, w)
     IN ManagerBecomes(handleWorkerExit([manager EXCEPT !.clusterWorkers = listed], w,
                                        crashed, worker.exitedAfterDisconnect))

\* A worker's channel disconnects: Node drops the worker from cluster.workers
\* if its process has exited
WorkerDisconnects(w) ==
  /\ manager.exitCode = -1
  /\ w \in DOMAIN manager.clusterWorkers
  /\ manager.clusterWorkers[w].connected
  /\ ManagerBecomes([manager EXCEPT !.clusterWorkers =
                       IF @[w].dead THEN Delete(@, w)
                       ELSE [@ EXCEPT ![w].connected = FALSE]])

\* The health check, or the startup timeout of forkWorker, kills a worker;
\* worker.kill sets exitedAfterDisconnect in the releases of Node where it
\* disconnects the worker first (marks)
Kill(w, marks) ==
  /\ manager.exitCode = -1
  /\ w \in Live(manager)
  /\ ~manager.clusterWorkers[w].signalled
  /\ ManagerBecomes([manager EXCEPT !.clusterWorkers[w].signalled = TRUE,
                                    !.clusterWorkers[w].exitedAfterDisconnect = @ \/ marks])

\* The delayed restart forking whether or not the manager is shutting down
RestartTimerIgnoresShutdown ==
  /\ manager.exitCode = -1
  /\ manager.restartTimers > 0
  /\ ManagerBecomes(forkWorker([manager EXCEPT !.restartTimers = @ - 1]))

\* The timer that handleWorkerExit set fires, restartDelay later
RestartTimer ==
  /\ manager.exitCode = -1
  /\ manager.restartTimers > 0
  /\ LET m == [manager EXCEPT !.restartTimers = @ - 1]
     IN ManagerBecomes(IF ~m.isShuttingDown THEN forkWorker(m) ELSE m)

\* A tick of startRebalancing's interval that finds too few workers
Rebalance ==
  /\ manager.exitCode = -1
  /\ Cardinality(DOMAIN manager.clusterWorkers) < WorkerCount
  /\ ~manager.isShuttingDown
  /\ ManagerBecomes(forkWorker(manager))

\* gracefulShutdown, on SIGTERM or SIGINT: nothing if a shutdown is under
\* way; else the workers of cluster.workers are taken, and each that is not
\* dead is sent the shutdown message and disconnected
gracefulShutdown ==
  /\ manager.exitCode = -1
  /\ ManagerBecomes(
       IF manager.isShuttingDown THEN manager
       ELSE [manager EXCEPT !.isShuttingDown = TRUE,
                            !.shutdownWorkers = DOMAIN manager.clusterWorkers,
                            !.clusterWorkers =
                               [w \in DOMAIN @ |->
                                  IF ~@[w].dead
                                  THEN [@[w] EXCEPT !.exitedAfterDisconnect = TRUE]
                                  ELSE @[w]]])

\* The grace period of a worker ends: SIGTERM if it is not dead
GraceKill(w) ==
  /\ manager.exitCode = -1
  /\ manager.isShuttingDown
  /\ w \in manager.shutdownWorkers \cap Live(manager)
  /\ ~manager.clusterWorkers[w].signalled
  /\ ManagerBecomes([manager EXCEPT !.clusterWorkers[w].signalled = TRUE])

\* A tick of checkWorkers that finds every worker dead: process.exit(0)
CheckWorkers ==
  /\ manager.exitCode = -1
  /\ manager.isShuttingDown
  /\ \A w \in manager.shutdownWorkers : isDead(manager, w)
  /\ ManagerBecomes([manager EXCEPT !.exitCode = 0])

\* forceShutdown, 30 seconds after the shutdown began: SIGKILL to the workers
\* that are not dead, and process.exit(1)
ForceShutdown ==
  /\ manager.exitCode = -1
  /\ manager.isShuttingDown
  /\ ManagerBecomes(
       [manager EXCEPT !.exitCode = 1,
                       !.clusterWorkers =
                          [w \in DOMAIN @ |->
                             IF w \in manager.shutdownWorkers /\ ~@[w].dead
                             THEN [@[w] EXCEPT !.signalled = TRUE]
                             ELSE @[w]]])
(* ----------------------------------------------------------------------- *)
(* Properties of the NeDB store and of publishing                          *)
(* ----------------------------------------------------------------------- *)

\* The proposals whose command fails validateCommandSecurity or whose
\* schedule fails validateCronSchedule
FailsChecks ==
  [c \in Proposals |-> \/ ~validateCommandSecurity(c.command)
                       \/ ~validateCronSchedule(c.schedule)]

\* The (command, schedule) pairs a stored job may hold that pass both checks
PassingPairs ==
  { <<Trim(c.command), Trim(c.schedule)>> : c \in {d \in Proposals : ~FailsChecks[d]} }

\* C1: a create_new or update call whose command fails the command-safety
\* check or whose schedule fails the schedule check is rejected with an error
\* and leaves the store exactly as it was; so every stored job holds a command
\* and a schedule that pass both checks.
C1_RejectedNeverPersisted ==
  [][/\ \A c \in Proposals : FailsChecks[c] =>
          /\ create_new(c) => (store' = store /\ last'.out # "")
          /\ \A id \in JobIds : update(id, c) => (store' = store /\ last'.out # "")
     /\ \A j \in DOMAIN store' :
          <<store'[j].command, store'[j].schedule>> \in PassingPairs]_vars

\* A job is stored and the latest call, with a dangerous command, was rejected
C1_Witness ==
  /\ DOMAIN store # {}
  /\ last.op \in {"create_new", "update"}
  /\ last.out = "Command contains potentially dangerous operations"

\* C2: at most one invocation of set_crontab is between its job collection and
\* its last step at any time.
C2_OnePublishInFlight ==
  Cardinality({p \in Publishers : pub[p].pc \notin {"idle", "done"}}) <= 1

\* C3: a publish that has reported a failure of its environment-file write or
\* of its schedule-file write runs no later step: it is finished.
C3_AbortsAtFailedWrite ==
  \A p \in Publishers : pub[p].cbs # <<>> => pub[p].pc = "done"

\* C4: a step turns a job's saved flag to true only if it is the last step of
\* a publish whose reload succeeded, which reports success; the step of a
\* failed reload reports the failure and leaves every job as it was.
C4_SavedOnlyAfterReload ==
  [][/\ (\E j \in DOMAIN store \cap DOMAIN store' : ~store[j].saved /\ store'[j].saved)
          => \E p \in Publishers :
               /\ pub[p].pc = "exec"
               /\ pub'[p].pc = "done"
               /\ pub'[p].cbs[Len(pub'[p].cbs)] = "ok"
               /\ installed' = cronFile
     /\ \A p \in Publishers :
          ExecCallback(p, FALSE) =>
            /\ store' = store
            /\ pub'[p].pc = "done"
            /\ pub'[p].cbs[Len(pub'[p].cbs)] = "err"]_vars

\* The first publish wrote both files, its reload failed, and the job it
\* compiled is still not saved
C4_Witness ==
  /\ publishes = 1
  /\ pub[1].pc = "done"
  /\ pub[1].cbs = <<"err">>
  /\ cronFile.lines # <<>>
  /\ installed = EmptyFile
  /\ \E j \in DOMAIN store : ~store[j].saved

\* C6: the last step of a successful publish makes saved true for every job
\* the published text has a line for, and leaves saved as it was for every
\* other job.
C6_SavedFrame ==
  [][\A p \in Publishers :
       ExecCallback(p, TRUE) =>
         \A j \in DOMAIN store :
           /\ j \in Included(pub[p].lines) => store'[j].saved
           /\ j \notin Included(pub[p].lines) => store'[j].saved = store[j].saved]_vars

\* C7: a job is saved only if what the host scheduler runs was compiled from
\* the job as it is stored now: its line for a job that is not stopped, no
\* line for a stopped job.
C7_SavedMeansInstalled ==
  \A j \in DOMAIN store :
    store[j].saved =>
      IF store[j].stopped
      THEN j \notin Included(installed.lines)
      ELSE \E k \in DOMAIN installed.lines : installed.lines[k] = Line(j, store[j])

(* ----------------------------------------------------------------------- *)
(* Properties of the stores and of DatabaseManager's cache                 *)
(* ----------------------------------------------------------------------- *)

\* The calls that create or change a job
Mutations ==
  {"create_new", "update", "status", "createCrontab", "updateCrontab", "updateStatus"}

\* A call that writes to the store completes in this step
WriteCompletes ==
  \/ backendType \in {"nedb", "sqlite"} /\ ops' # ops
  \/ /\ backendType = "redis"
     /\ \E c \in Clients : /\ call[c].pc # "idle"
                           /\ call'[c].pc = "idle"
                           /\ call[c].op \notin {"getCrontab", "getAllCrontabs"}

\* C5: when a create, update or status call that was not rejected completes,
\* the job it was about, if the store holds it, has saved false: in the NeDB
\* store, in the sqlite table and in the redis hash.
C5_MutationResetsSaved ==
  [][(WriteCompletes /\ last'.op \in Mutations) =>
       IF backendType = "nedb"
       THEN (last'.out = "" /\ last'.id \in DOMAIN store') => ~store'[last'.id].saved
       ELSE ReadJob(backendType, rows', last'.id) # <<>>
              => ~ReadJob(backendType, rows', last'.id)[1].saved]_vars

\* A job was created and published, so saved, and then its status was set:
\* it is not saved although the installed schedule has its line
C5_Witness ==
  /\ backendType = "nedb"
  /\ ops = 2
  /\ last.op = "status"
  /\ last.id \in DOMAIN store
  /\ ~store[last.id].saved
  /\ last.id \in Included(installed.lines)
  /\ pub[1].cbs = <<"ok">>

\* The jobs of a list with a given id
WithId(list, id) == {k \in DOMAIN list : list[k]._id = id}

\* C8: with the calls made one after the other, a get or list gives back
\* what the backend holds when it completes, and the first read after a write
\* shows the write: the created job with its command, the updated job with
\* the new name, command and schedule, the new stopped flag, no deleted job.
C8_ReadsShowCompletedWrites ==
  [][/\ last'.op = "getCrontab" => last'.out = ReadJob(backendType, rows', last'.id)
     /\ last'.op = "getAllCrontabs" => last'.out = ReadAll(backendType, rows')
     /\ (last.op = "createCrontab" /\ last'.op = "getAllCrontabs") =>
          \E k \in WithId(last'.out, last.id) : last'.out[k].command = last.arg.command
     /\ (last.op = "createCrontab" /\ last'.op = "getCrontab" /\ last'.id = last.id) =>
          last'.out # <<>> /\ last'.out[1].command = last.arg.command
     /\ (last.op = "updateCrontab" /\ last'.op = "getCrontab" /\ last'.id = last.id) =>
          \A k \in DOMAIN last'.out :
            /\ last'.out[k].name = last.arg.name
            /\ last'.out[k].command = last.arg.command
            /\ last'.out[k].schedule = last.arg.schedule
     /\ (last.op = "updateCrontab" /\ last'.op = "getAllCrontabs") =>
          \A k \in WithId(last'.out, last.id) : last'.out[k].command = last.arg.command
     /\ (last.op = "updateStatus" /\ last'.op = "getCrontab" /\ last'.id = last.id) =>
          \A k \in DOMAIN last'.out : last'.out[k].stopped = last.arg
     /\ (last.op = "updateStatus" /\ last'.op = "getAllCrontabs") =>
          \A k \in WithId(last'.out, last.id) : last'.out[k].stopped = last.arg
     /\ (last.op = "deleteCrontab" /\ last'.op = "getCrontab" /\ last'.id = last.id) =>
          last'.out = <<>>
     /\ (last.op = "deleteCrontab" /\ last'.op = "getAllCrontabs") =>
          WithId(last'.out, last.id) = {}]_vars

\* A job was created and then stopped, and the get after that gave back the
\* stopped job
C8_Witness ==
  /\ backendType \in {"sqlite", "redis"}
  /\ ops = 2
  /\ last.op = "getCrontab"
  /\ last.out # <<>>
  /\ last.out[1].stopped = TRUE
  /\ \A c \in Clients : call[c].pc = "idle"

\* What the backend holds for a cache key
Cacheable(key, value) ==
  \/ key = getCacheKey(S_getAllCrontabs, 0) /\ value = ReadAll(backendType, rows)
  \/ \E id \in JobIds : /\ key = getCacheKey(S_getCrontab, id)
                        /\ <<value>> = ReadJob(backendType, rows, id)

C10_WritesEmptyCache ==
  [][(backendType \in {"sqlite", "redis"} /\ WriteCompletes) => cache' = <<>>]_vars


(* ----------------------------------------------------------------------- *)
(* Properties of the compiled schedule text                                *)
(* ----------------------------------------------------------------------- *)

\* C11: the schedule file never holds a line for a job whose schedule fails
\* to parse: a publish leaves such a job out of the text it writes.
C11_NoUnparsableLine ==
  \A k \in DOMAIN cronFile.lines : validateCronSchedule(cronFile.lines[k].schedule)

\* Where the lines of a text end: at its newlines and at its end
LineEnds(text) == {k \in DOMAIN text : text[k] = "\n"} \cup {Len(text) + 1}

\* The line of a text that ends at e: what follows the newline before e
LineEndingAt(text, e) ==
  LET before == {k \in LineEnds(text) : k < e}
      start == IF before = {} THEN 1
               ELSE (CHOOSE k \in before : \A m \in before : m <= k) + 1
  IN SubSeq(text, start, e - 1)

\* The end of the first line of a text
FirstEnd(text) == CHOOSE e \in LineEnds(text) : \A m \in LineEnds(text) : e <= m

\* The jobs of the store that are not stopped
Running == {j \in DOMAIN store : ~store[j].stopped}

LogBlockStart(j) == S_ifTest \o StderrFile(j) \o S_thenDate \o LogFile(j) \o <<"\"">>

\* C13: in the text a publish compiles, the fragment of every job stored with
\* logging enabled holds the block that appends its capture files to its log
\* files, and the fragment of a job with logging disabled holds no such block.
C13_LoggingBlock ==
  [][\A p \in Publishers :
       CrontabsCallback(p) =>
         \A j \in Running :
           store[j].logging <=> Includes(pub'[p].text, LogBlockStart(j))]_vars

\* The end of the n-th line of a text
NthEnd(text, n) ==
  CHOOSE e \in LineEnds(text) : Cardinality({m \in LineEnds(text) : m < e}) = n - 1

\* The jobs whose capture files or log files a line names
NamedJobs(line) ==
  {j \in 1..9 : \/ Includes(line, StdoutFile(j))
                \/ Includes(line, StderrFile(j))
                \/ Includes(line, LogFile(j))
                \/ Includes(line, StdoutLogFile(j))}

BlockedCommands ==
  {S_rmrf, S_sudo, S_chain, S_REBOOT, S_script, S_SCRIPT, S_jsmark, S_toolong,
   JsTrue}
AllowedCommands == {S_echo, S_ls, S_sudoku, S_longest}

\* C15: create_new and update reject every command that is not a string, is
\* longer than 2000 characters, holds an HTML script tag, in lower or upper
\* case, or a javascript: marker, or has a match of a deny-list pattern
\* anywhere in it, whatever the name and the schedule are, and store nothing;
\* with a name and a schedule that pass, they accept every other command and
\* store it, trimmed.
C15_CommandCheck ==
  [][\A c \in CommandProposals :
       /\ c.command \in BlockedCommands \cup AllowedCommands
       /\ c.command \in BlockedCommands =>
            /\ create_new(c) =>
                 /\ store' = store
                 /\ last'.out # ""
                 /\ c.name # S_semi =>
                      last'.out = "Command contains potentially dangerous operations"
            /\ \A id \in JobIds : update(id, c) => (store' = store /\ last'.out # "")
       /\ (c.command \in AllowedCommands /\ c.name # S_semi /\ c.schedule = S_2am) =>
            /\ create_new(c) =>
                 /\ last'.out = ""
                 /\ last'.id \in DOMAIN store' \ DOMAIN store
                 /\ store'[last'.id].command = Trim(c.command)
            /\ \A id \in DOMAIN store : update(id, c) =>
                 (last'.out = "" /\ store'[id].command = Trim(c.command))]_vars

\* The eight named macros of a schedule
NamedMacros ==
  { <<"@", "r", "e", "b", "o", "o", "t">>,
    <<"@", "y", "e", "a", "r", "l", "y">>,
    <<"@", "a", "n", "n", "u", "a", "l", "l", "y">>,
    <<"@", "m", "o", "n", "t", "h", "l", "y">>,
    <<"@", "w", "e", "e", "k", "l", "y">>,
    <<"@", "d", "a", "i", "l", "y">>,
    <<"@", "m", "i", "d", "n", "i", "g", "h", "t">>,
    <<"@", "h", "o", "u", "r", "l", "y">> }

\* C16: a save request for a new job whose schedule is one of the eight named
\* macros, with a name and a command that pass, is accepted: the job is stored
\* with that schedule; a save request whose schedule is neither a macro nor a
\* valid expression of five or six fields stores nothing.
C16_ScheduleCheck ==
  [][\A f \in SaveFields :
       /\ (f.schedule \in NamedMacros /\ f.name = <<>> /\ f.command = S_echo) =>
            (SaveRoute(-1, f) =>
               /\ last'.out = ""
               /\ \E j \in DOMAIN store' \ DOMAIN store : store'[j].schedule = f.schedule)
       /\ f.schedule \in {S_bad, S_2parts} =>
            \A id \in SaveIds : SaveRoute(id, f) => store' = store]_vars

\* The names the name check is to accept: the empty name, and 1 to 100
\* letters, digits, underscores, hyphens, dots and whitespace characters
NameAllowed(name) ==
  \/ name = <<>>
  \/ /\ Len(name) <= 100
     /\ \A k \in DOMAIN name :
          name[k] \in LowerLetters \cup UpperLetters \cup Digits \cup {"_", "-", "."}
                        \cup SpaceChars

\* C17: the check of the HTTP layer and the check of the store agree on every
\* name and accept exactly the allowed names: a save request for a new job
\* with a command and a schedule that pass is stored under its name if the
\* name is allowed, and no job is stored under a name that is not.
C17_NameCheck ==
  [][\A f \in SaveFields :
       (f.command \in {S_echo, S_ls} /\ f.schedule = S_2am /\ SaveRoute(-1, f)) =>
         IF NameAllowed(f.name)
         THEN /\ last'.out = ""
              /\ \E j \in DOMAIN store' \ DOMAIN store : store'[j].name = f.name
         ELSE \A j \in DOMAIN store' : store'[j].name # f.name]_vars

\* C18: a save request whose name fails the name check stores nothing: the
\* store is as it was before the request.
C18_RefusedNameStoresNothing ==
  [][\A id \in SaveIds, f \in SaveFields :
       (SaveRoute(id, f) /\ ~NameAllowed(f.name)) => store' = store]_vars

\* C19: a save request is answered with success only if create_new or update
\* accepted the job: when they reject it, the response is not success.
C19_SuccessMeansAccepted ==
  [][\A id \in SaveIds, f \in SaveFields :
       (SaveRoute(id, f) /\ RouteResponse[f] = "200 success") => last'.out = ""]_vars

\* C20: a publish that has reported a failure, of the environment-file write,
\* of the schedule-file write or of the reload, does not change the schedule
\* the host runs, in the step that reports it or in any later step.
C20_FailedPublishKeepsInstalled ==
  [][\A p \in Publishers :
       (pub'[p] # pub[p] /\ \E k \in DOMAIN pub'[p].cbs : pub'[p].cbs[k] = "err")
         => installed' = installed]_vars

\* C21: every publish that has started eventually finishes, with an outcome
\* reported: a crontab command that does not return is cut off by a timeout
\* and counted as a failed reload.
C21_PublishFinishes ==
  \A p \in {1} : (pub[p].pc \notin {"idle", "done"}) ~> (pub[p].pc = "done")

\* C22: no step of a publish, successful or failed, creates, deletes or
\* rewrites a job: the store holds the same job ids after the step, and every
\* field of every job other than saved is what it was.
C22_PublishKeepsJobs ==
  [][\A p \in Publishers :
       pub'[p] # pub[p] =>
         /\ DOMAIN store' = DOMAIN store
         /\ \A j \in DOMAIN store :
              [store'[j] EXCEPT !.saved = store[j].saved] = store[j]]_vars

\* A publish has succeeded and a failed one followed it, over a store that
\* holds a stopped job and a job the first publish marked saved
C22_Witness ==
  /\ publishes = 2
  /\ pub[1].pc = "done"
  /\ pub[1].cbs = <<"err">>
  /\ \E j, k \in DOMAIN store : store[j].saved /\ store[k].stopped /\ store[j].name # <<>>

\* C23: the cache never holds more than maxEntries entries, whatever reads
\* and writes have been made and however they interleave.
C23_CacheBounded == Len(cache) <= MaxEntries

\* The cache is full, its newest entry is the one the latest read has put,
\* and the backend holds a job whose entry is not in the cache
C23_Witness ==
  /\ Len(cache) = MaxEntries
  /\ last.op = "getAllCrontabs"
  /\ cache[Len(cache)].key = getCacheKey(S_getAllCrontabs, 0)
  /\ \E id \in DOMAIN rows : EntryOf(cache, getCacheKey(S_getCrontab, id)) = 0

\* C24: when a step puts an entry under a new key into a full cache, the
\* cache stays full and exactly one of the entries it held is gone, one whose
\* timestamp no other entry's timestamp was below, while every other entry
\* keeps its timestamp; and a read that getCache serves from the cache leaves
\* the cache, timestamps included, as it was.
C24_EvictsOldestOnly ==
  [][/\ (/\ Len(cache) = MaxEntries
         /\ \E n \in DOMAIN cache' : EntryOf(cache, cache'[n].key) = 0) =>
          /\ Len(cache') = MaxEntries
          /\ \E k \in DOMAIN cache :
               /\ \A l \in DOMAIN cache : cache[k].timestamp <= cache[l].timestamp
               /\ EntryOf(cache', cache[k].key) = 0
               /\ \A l \in DOMAIN cache \ {k} :
                    /\ EntryOf(cache', cache[l].key) # 0
                    /\ cache'[EntryOf(cache', cache[l].key)].timestamp = cache[l].timestamp
     /\ \A c \in Clients, id \in JobIds :
          (db_getCrontab(c, id) /\ getCache(cache, getCacheKey(S_getCrontab, id), now).hit)
            => cache' = cache
     /\ \A c \in Clients :
          (db_getAllCrontabs(c) /\ getCache(cache, getCacheKey(S_getAllCrontabs, 0), now).hit)
            => cache' = cache]_vars

\* The clock has moved, the cache is full of entries put after that, and the
\* entry of a job the backend holds, the older one, is not in it
C24_Witness ==
  /\ now > 0
  /\ Len(cache) = MaxEntries
  /\ \A k \in DOMAIN cache : cache[k].timestamp = now
  /\ \E id \in DOMAIN rows : EntryOf(cache, getCacheKey(S_getCrontab, id)) = 0
  /\ last.op \in {"getCrontab", "getAllCrontabs"}

\* C25: a read that finds an entry under its key serves the entry's value,
\* leaving the cache as it is, if the time since the entry's timestamp is at
\* most the TTL; if it is more, the read removes the entry and goes to the
\* backend (any entry under the key afterwards is one put now). A step of the
\* clock alone removes nothing.
C25_ExpiredNeverServed ==
  [][/\ \A c \in Clients, id \in JobIds :
          LET k == EntryOf(cache, getCacheKey(S_getCrontab, id))
          IN (db_getCrontab(c, id) /\ k # 0) =>
               IF now - cache[k].timestamp <= CacheTTL
               THEN last'.out = <<cache[k].value>> /\ cache' = cache
               ELSE /\ \A n \in DOMAIN cache' :
                         cache'[n].key = cache[k].key => cache'[n].timestamp = now
                    /\ backendType = "redis" => call'[c].pc = "hget"
                    /\ backendType = "sqlite" => last'.out = ReadJob(backendType, rows, id)
     /\ \A c \in Clients :
          LET k == EntryOf(cache, getCacheKey(S_getAllCrontabs, 0))
          IN (db_getAllCrontabs(c) /\ k # 0) =>
               IF now - cache[k].timestamp <= CacheTTL
               THEN last'.out = cache[k].value /\ cache' = cache
               ELSE /\ \A n \in DOMAIN cache' :
                         cache'[n].key = cache[k].key => cache'[n].timestamp = now
                    /\ backendType = "redis" => call'[c].pc = "hgetall"
                    /\ backendType = "sqlite" => last'.out = ReadAll(backendType, rows)
     /\ Tick => cache' = cache]_vars

\* An entry older than the TTL is still in the cache, none has read it, and
\* the latest read has put a fresh entry for its own key
C25_Witness ==
  /\ \E k \in DOMAIN cache : now - cache[k].timestamp > CacheTTL
  /\ last.op = "getCrontab"
  /\ last.out # <<>>
  /\ \E k \in DOMAIN cache : /\ cache[k].key = getCacheKey(S_getCrontab, last.id)
                              /\ cache[k].timestamp = now

JobValues(o) ==
  <<o.name, o.command, o.schedule, Field(o, "logging", "undefined"), o.mailing,
    o.created, o.saved>>

\* C27: the two backends are interchangeable: the job a backend holds when a
\* createCrontab or updateCrontab call has completed has the values of name,
\* command, schedule, stopped, logging, mailing, created and saved that the
\* other backend holds after the same call on the same job.
C27_BackendsAgree ==
  [][/\ (WriteCompletes /\ last'.op = "createCrontab") =>
          LET job == ReadJob(backendType, rows', last'.id)[1]
              inSqlite == FromRow(InsertedRow(last'.id, last'.arg, job.created))
              inRedis == JSONRoundTrip(Spread(last'.arg, [_id |-> last'.id,
                                                          created |-> job.created,
                                                          saved |-> FALSE]))
          IN /\ JobValues(job) = JobValues(inSqlite)
             /\ JobValues(job) = JobValues(inRedis)
             /\ "stopped" \in DOMAIN inRedis => inRedis.stopped = inSqlite.stopped
     /\ (WriteCompletes /\ last'.op = "updateCrontab" /\ last'.id \in DOMAIN rows) =>
          LET before == ReadJob(backendType, rows, last'.id)[1]
              job == ReadJob(backendType, rows', last'.id)[1]
          IN JobValues(job) = JobValues(JSONRoundTrip(Updated(before, last'.arg)))]_vars

C29_EnvRoundTrip ==
  [][\A p \in Publishers :
       /\ WriteCronCallback(p, TRUE) =>
            /\ cronFile'.env = get_env'
            /\ get_env' # <<>> =>
                 /\ Len(cronFile'.text) > Len(get_env')
                 /\ SubSeq(cronFile'.text, 1, Len(get_env') + 1) = get_env' \o <<"\n">>
       /\ ExecCallback(p, TRUE) => installed'.env = get_env']_vars

\* The jobs a publish compiled, as a set: what each line was compiled from
LineSet(lines) == {lines[k] : k \in DOMAIN lines}

\* C30: compiling is idempotent and deterministic. A publish that read the
\* same jobs and was given the same environment blob as the publish that wrote
\* the schedule file before it compiles and writes the same text, character
\* for character, with the same lines in the same order.
C30_CompileIdempotent ==
  [][\A p \in Publishers :
       /\ ( /\ CrontabsCallback(p)
            /\ cronFile # EmptyFile
            /\ cronFile.env = pub[p].env
            /\ LineSet(cronFile.lines) = LineSet(pub'[p].lines) )
          => pub'[p].text = cronFile.text /\ pub'[p].lines = cronFile.lines
       /\ ( /\ WriteCronCallback(p, TRUE)
            /\ cronFile # EmptyFile
            /\ cronFile.env = pub[p].env
            /\ LineSet(cronFile.lines) = LineSet(pub[p].lines) )
          => cronFile'.text = cronFile.text]_vars

\* The second publish has written the schedule file again, with a job in
\* it and the blob, after the first one was installed and with every job
\* still marked saved: the text written is the text installed
C30_Witness ==
  /\ publishes = 2
  /\ pub[1].pc = "exec"
  /\ cronFile.lines # <<>>
  /\ cronFile.env # <<>>
  /\ installed = cronFile
  /\ DOMAIN store # {}
  /\ \A j \in DOMAIN store : store[j].saved

(* ----------------------------------------------------------------------- *)
(* Callbacks, frames and the watcher                                       *)
(* ----------------------------------------------------------------------- *)

\* C31: set_crontab calls its callback exactly once per call: never more than
\* once while it runs, once when it is finished, and therefore never with
\* both an error and a success.
C31_CallbackOnce ==
  \A p \in Publishers :
    /\ Len(pub[p].cbs) <= 1
    /\ pub[p].pc = "done" => Len(pub[p].cbs) = 1

\* C32: an update that is accepted changes only what it is given, the
\* modification time and saved: the job keeps its id, its stopped flag and
\* its created time, no job appears or disappears, and the jobs keep their
\* order in the list, newest created first.
C32_UpdateFrame ==
  [][\A id \in JobIds, c \in Proposals :
       (update(id, c) /\ id \in DOMAIN store /\ ProposalError[c] = "") =>
         /\ DOMAIN store' = DOMAIN store
         /\ store'[id].stopped = store[id].stopped
         /\ store'[id].created = store[id].created
         /\ SortByCreated(store', DOMAIN store') = SortByCreated(store, DOMAIN store)]_vars

\* C33: the write that marks the jobs saved at the end of a successful
\* publish does not keep the watcher going: when every job was saved already
\* and no change of crontab.db was waiting for the watcher, none is waiting
\* after it, so that the publishes started by one mutation come to an end.
C33_AutosaveQuiesces ==
  [][\A p \in Publishers :
       ( /\ ExecCallback(p, TRUE)
         /\ ~fileChanged
         /\ \A j \in DOMAIN store : store[j].saved )
       => ~fileChanged']_vars

\* C34: the cache's entries are not changed in place. With the calls made
\* one after the other, the getCrontab that follows an updateCrontab or an
\* updateStatus of the same job whose write to the backend failed gives back
\* the job with the stopped and saved values the backend holds (a job without
\* a stopped field is not stopped).
C34_FailedWriteLeavesCache ==
  [][( /\ last.op \in {"updateCrontab", "updateStatus"}
       /\ last.out = WriteFailed
       /\ last'.op = "getCrontab"
       /\ last'.id = last.id )
     => LET stored == ReadJob(backendType, rows', last'.id)
        IN /\ Len(last'.out) = Len(stored)
           /\ \A k \in DOMAIN stored :
                /\ Field(last'.out[k], "stopped", FALSE) = Field(stored[k], "stopped", FALSE)
                /\ Field(last'.out[k], "saved", FALSE) = Field(stored[k], "saved", FALSE)]_vars

\* C35: after a restore the store holds exactly the jobs of the backup: the
\* database is loaded from crontab.db when the whole backup has been copied
\* over it.
C35_RestoreLoadsBackup ==
  [][\A file \in ImportedFiles, k \in -1 .. MaxJobs :
       restore(file, k) => store' = file]_vars

\* The jobs of the store with the command and the schedule of a line
Twins(docs, line) == Cardinality(Matching(docs, line))

C37_RestartsBounded ==
  manager.nextWorkerId - 1 <= WorkerCount * (1 + maxRestarts)

\* C38: no more than workerCount workers are alive at any time.
C38_WorkersWithinCount ==
  Cardinality(Live(manager)) <= WorkerCount

InitLegacy ==
  /\ backendType = "nedb"
  /\ now = 0
  /\ ops = 0
  /\ last = NoCall
  /\ nextId = 1
  /\ store = <<>>
  /\ pub = [p \in Publishers |-> IdlePub]
  /\ envFile = <<>>
  /\ cronFile = EmptyFile
  /\ installed = EmptyFile
  /\ fileChanged = FALSE
  /\ publishes = 0
  /\ rows = <<>>
  /\ cache = <<>>
  /\ call = [c \in Clients |-> IdleCall]
  /\ wire = <<>>
  /\ manager = NoCluster

\* The job mutations that crontab.js exports
NextCrud ==
  \/ \E c \in Proposals : create_new(c)
  \/ \E id \in JobIds, c \in Proposals : update(id, c)
  \/ \E id \in JobIds, stopped \in BOOLEAN : status(id, stopped)
  \/ \E id \in JobIds : remove(id)

\* The steps of the set_crontab invocations of the publishers in P
NextPublish(P) ==
  \/ \E p \in P, env \in EnvValues : PublishRoute(p, env)
  \/ \E p \in P : AutosaveWatcher(p)
  \/ \E p \in P : CrontabsCallback(p)
  \/ \E p \in P, ok \in BOOLEAN : WriteEnvCallback(p, ok)
  \/ \E p \in P, ok \in BOOLEAN : WriteCronCallback(p, ok)
  \/ \E p \in P, ok \in BOOLEAN : ExecCallback(p, ok)

\* Job mutations interleaved with publishes that are requested one after the other
NextLegacy == NextCrud \/ NextPublish({1})

SpecLegacy == InitLegacy /\ [][NextLegacy]_vars

\* SpecLegacy with the scheduling Node guarantees: the callbacks of the store's
\* find and of the two fs.writeFile calls are run; the callback of exec is run
\* when the crontab command exits, and exec is given no timeout, so nothing
\* makes it run
SpecLegacyFair ==
  /\ SpecLegacy
  /\ WF_vars(CrontabsCallback(1))
  /\ WF_vars(\E ok \in BOOLEAN : WriteEnvCallback(1, ok))
  /\ WF_vars(\E ok \in BOOLEAN : WriteCronCallback(1, ok))

\* The requests of the HTTP layer: save, start and stop, remove, import and
\* publish, one after the other
NextApp ==
  \/ \E id \in SaveIds, fields \in SaveFields : SaveRoute(id, fields)
  \/ \E id \in JobIds, stopped \in BOOLEAN : status(id, stopped)
  \/ \E id \in JobIds : remove(id)
  \/ \E file \in ImportedFiles : ImportRoute(file)
  \/ NextPublish({1})

SpecApp == InitLegacy /\ [][NextApp]_vars

\* Creating, changing and removing jobs whose arguments differ in their command
NextValidate ==
  \/ \E c \in CommandProposals : create_new(c)
  \/ \E id \in JobIds, c \in CommandProposals : update(id, c)
  \/ \E id \in JobIds : remove(id)

SpecValidate == InitLegacy /\ [][NextValidate]_vars

\* Creating, starting and stopping jobs and importing a crontab.db,
\* interleaved with publishes that are requested one after the other
NextCompile ==
  \/ \E c \in Proposals : create_new(c)
  \/ \E id \in JobIds, stopped \in BOOLEAN : status(id, stopped)
  \/ \E file \in ImportedFiles : ImportRoute(file)
  \/ NextPublish({1})

SpecCompile == InitLegacy /\ [][NextCompile]_vars

\* Job mutations interleaved with publishes that are requested at any time
NextConcurrent == NextCrud \/ NextPublish(Publishers)

SpecConcurrent == InitLegacy /\ [][NextConcurrent]_vars

InitDb ==
  /\ backendType \in {"sqlite", "redis"}
  /\ now = 0
  /\ ops = 0
  /\ last = NoCall
  /\ nextId = 1
  /\ store = <<>>
  /\ pub = [p \in Publishers |-> IdlePub]
  /\ envFile = <<>>
  /\ cronFile = EmptyFile
  /\ installed = EmptyFile
  /\ fileChanged = FALSE
  /\ publishes = 0
  /\ rows = <<>>
  /\ cache = <<>>
  /\ call = [c \in Clients |-> IdleCall]
  /\ wire = <<>>
  /\ manager = NoCluster

\* The steps of the DatabaseManager calls of the callers in C
NextDb(C) ==
  \/ \E c \in C, data \in DataInputs : db_createCrontab(c, data)
  \/ \E c \in C : db_createCrontabReply(c)
  \/ \E c \in C, id \in JobIds, data \in DataInputs : db_updateCrontab(c, id, data)
  \/ \E c \in C : db_updateCrontabExisting(c)
  \/ \E c \in C : db_updateCrontabReply(c)
  \/ \E c \in C, id \in JobIds : db_getCrontab(c, id)
  \/ \E c \in C : db_getCrontabReply(c)
  \/ \E c \in C : db_getAllCrontabs(c)
  \/ \E c \in C : db_getAllCrontabsReply(c)
  \/ \E c \in C, id \in JobIds : db_deleteCrontab(c, id)
  \/ \E c \in C : db_deleteCrontabReply(c)
  \/ \E c \in C, id \in JobIds, stopped \in BOOLEAN : db_updateStatus(c, id, stopped)
  \/ \E c \in C : db_updateStatusExisting(c)
  \/ \E c \in C : db_updateStatusReply(c)
  \/ Tick

\* DatabaseManager calls made at any time, on either backend
SpecDb == InitDb /\ [][NextDb(Clients)]_vars

\* DatabaseManager calls made one after the other, on either backend
SpecDbSeq == InitDb /\ [][NextDb({1})]_vars

\* DatabaseManager calls made one after the other, on either backend, whose
\* writes of an update or of a status change can fail
NextDbFaults ==
  \/ NextDb({1})
  \/ \E op \in {"updateCrontab", "updateStatus"}, id \in JobIds : db_runThrows(1, op, id)
  \/ db_hsetRejects(1)

SpecDbFaults == InitDb /\ [][NextDbFaults]_vars

\* Jobs created, stopped and removed, and backups restored
NextRestore ==
  \/ \E c \in Proposals : create_new(c)
  \/ \E id \in JobIds, stopped \in BOOLEAN : status(id, stopped)
  \/ \E id \in JobIds : remove(id)
  \/ \E file \in ImportedFiles, k \in -1 .. MaxJobs : restore(file, k)
  \/ ClockStep

SpecRestore == InitLegacy /\ [][NextRestore]_vars

\* Imports of the host's crontab, with jobs stopped and removed in between
NextImport ==
  \/ \E lines \in HostCrontabs : import_crontab(lines)
  \/ \E id \in JobIds, stopped \in BOOLEAN : status(id, stopped)
  \/ \E id \in JobIds : remove(id)
  \/ ClockStep

SpecImport == InitLegacy /\ [][NextImport]_vars

\* The primary process after startMaster, nothing else running in it
InitCluster ==
  /\ backendType = "nedb"
  /\ now = 0
  /\ ops = 0
  /\ last = NoCall
  /\ nextId = 1
  /\ store = <<>>
  /\ pub = [p \in Publishers |-> IdlePub]
  /\ envFile = <<>>
  /\ cronFile = EmptyFile
  /\ installed = EmptyFile
  /\ fileChanged = FALSE
  /\ publishes = 0
  /\ rows = <<>>
  /\ cache = <<>>
  /\ call = [c \in Clients |-> IdleCall]
  /\ wire = <<>>
  /\ manager = startMaster(NoCluster, WorkerCount)

\* The ids cluster.fork() gives in one run
WorkerIds == 1 .. CrashLoopForks

\* Workers that keep dying with a non-zero exit code, and the manager's timers
NextCrashLoop ==
  \/ \E w \in WorkerIds : WorkerExits(w, TRUE)
  \/ \E w \in WorkerIds : WorkerDisconnects(w)
  \/ RestartTimer
  \/ Rebalance

SpecCrashLoop == InitCluster /\ [][NextCrashLoop]_vars

\* The forks of one run of the primary process are within MaxForks
WithinForks == manager'.nextWorkerId <= MaxForks + 1

\* Everything that happens to the primary process
NextCluster ==
  \/ \E w \in WorkerIds, crashed \in BOOLEAN : WorkerExits(w, crashed) /\ WithinForks
  \/ \E w \in WorkerIds : WorkerDisconnects(w)
  \/ \E w \in WorkerIds, marks \in BOOLEAN : Kill(w, marks)
  \/ RestartTimer /\ WithinForks
  \/ Rebalance /\ WithinForks
  \/ gracefulShutdown
  \/ \E w \in WorkerIds : GraceKill(w)
  \/ CheckWorkers
  \/ ForceShutdown

SpecCluster == InitCluster /\ [][NextCluster]_vars

\* SpecCluster with the scheduling Node guarantees: a timer that was set
\* fires while the process runs, so forceShutdown runs unless the process
\* has exited before
SpecClusterFair == SpecCluster /\ WF_vars(ForceShutdown)

\* Jobs created at different times in either store, then listed: by
\* getAllCrontabs, or by crontabs() within a publish
NextList ==
  \/ \E c \in Proposals : create_new(c)
  \/ \E id \in JobIds, stopped \in BOOLEAN : status(id, stopped)
  \/ ClockStep
  \/ \E env \in EnvValues : PublishRoute(1, env)
  \/ CrontabsCallback(1)
  \/ NextDb({1})

SpecList == (InitLegacy \/ InitDb) /\ [][NextList]_vars

\* DatabaseManager calls made one after the other, on either backend, with
\* the data that createCrontab of crontab.js builds at the time of the call
NextBackends ==
  \/ \E data \in TabData(now) : db_createCrontab(1, data)
  \/ db_createCrontabReply(1)
  \/ \E id \in JobIds, data \in TabData(now) : db_updateCrontab(1, id, data)
  \/ db_updateCrontabExisting(1)
  \/ db_updateCrontabReply(1)
  \/ \E id \in JobIds : db_getCrontab(1, id)
  \/ db_getCrontabReply(1)
  \/ \E id \in JobIds, stopped \in BOOLEAN : db_updateStatus(1, id, stopped)
  \/ db_updateStatusExisting(1)
  \/ db_updateStatusReply(1)
  \/ Tick

SpecBackends == InitDb /\ [][NextBackends]_vars

\* Creating, changing, stopping and removing jobs at different times, with
\* either outcome of each write of create_new and update
NextDualWrite ==
  \/ \E c \in Proposals, modern \in ModernOutcomes, legacy \in BOOLEAN :
       create_newWrites(c, modern, legacy)
  \/ \E id \in JobIds, c \in Proposals, modern \in ModernOutcomes, legacy \in BOOLEAN :
       updateWrites(id, c, modern, legacy)
  \/ \E id \in JobIds, stopped \in BOOLEAN : status(id, stopped)
  \/ \E id \in JobIds : remove(id)
  \/ ClockStep

SpecDualWrite == InitLegacy /\ [][NextDualWrite]_vars

\* Either store, its callers making one call after the other
SpecStores == (InitLegacy \/ InitDb) /\ [][NextLegacy \/ NextDb({1})]_vars

Spec == SpecLegacy
====
